---- MODULE Spec2Model ----
(***************************************************************************)
(* A model of vendor_web_scraper's core: the rate-limited, retrying        *)
(* request of BaseScraper (core/scraper_base.py), the per-URL scrape        *)
(* boundary of the vendor scrapers, the ScrapingResult envelope, the       *)
(* URL -> vendor registry of ScraperFactory (core/scraper_factory.py), the  *)
(* cookie cache of CookieManager (core/cookie_manager.py), the pricing     *)
(* record ProductPricing and the export of ProductInfo                      *)
(* (core/product_model.py), and the scrape command of cli.py.               *)
(*                                                                          *)
(* The specifications share the variables; each leaves the variables of     *)
(* the other components unchanged:                                          *)
(*   SpecFetch      BaseScraper._enforce_rate_limit / _make_request         *)
(*   SpecScrape     scrape_product, scrape_multiple_products, ScrapingResult*)
(*   SpecRegistry   ScraperFactory.register_scraper / get_scraper_by_url    *)
(*   SpecCookies    CookieManager.get_valid_cookies / refresh / clear       *)
(*   SpecCookieFile two processes saving the cookie file, a third loading   *)
(*   SpecPricing    ProductPricing(...) and the scrapers' _extract_pricing  *)
(*   SpecBreaks     ProductPricing.validate_quantity_breaks                 *)
(*   SpecExport     ProductInfo.to_inventree_format                         *)
(*   SpecDispatch   register_all_scrapers, get_scraper, then scrape_product *)
(*   SpecCli        the scrape command: one scraper instance per URL        *)
(***************************************************************************)
EXTENDS Integers, Sequences, FiniteSets, TLC

VARIABLES
    \* ---- BaseScraper: rate limiter and _make_request
    now,                    \* time.time(), in whole seconds
    delay_between_requests, \* self.delay_between_requests
    max_retries,            \* self.max_retries
    last_request_time,      \* self._last_request_time
    pc,                     \* where the client is in _make_request
    attempt,                \* the loop variable of _make_request
    e,                      \* the exception bound by the except clause
    outcome,                \* what _make_request gave its caller
    fetches,                \* _make_request calls made on this instance
    getCount,               \* session.get calls of the current fetch
    failCount,              \* failed attempts of the current fetch
    sleeps,                 \* the backoff time.sleep arguments of the current fetch
    prevGetAt,              \* when the GET before the last one was issued
    lastGetAt,              \* when the last GET was issued
    \* ---- ScraperFactory: the registry
    scrapers,               \* self._scrapers: vendor key -> scraper class
    domain_mapping,         \* self._domain_mapping: (domain, vendor key) in insertion order
    registrations,          \* register_scraper calls made
    resolved,               \* the last get_scraper_by_url call: its arguments and result
    firstSeen,              \* history: the domains in the order they were first registered,
                            \* and the vendor each was last registered for
    \* ---- the scrape boundary: scrape_product, scrape_multiple_products
    scraper,                \* the class of the scraper instance
    urls,                   \* the argument of scrape_multiple_products, or the
                            \* URLs of the scrape command
    idx,                    \* how many URLs its loop has finished
    results,                \* its results list (the command's all_products); each
                            \* entry remembers the URL it is for
    batchPc,                \* "idle", "running", "done", or "raised" when an exception left it
    lastScrape,             \* the last scrape_product call: its inputs and what it gave
    made,                   \* the last direct ScrapingResult(...) construction
    \* ---- CookieManager and the cookie file
    clock,                  \* time.time(), in seconds
    ticks,                  \* how often time has moved on
    cookie_file,            \* the content of self.cookie_file, or NoFile
    cookies,                \* self.cookies
    auto_refresh,           \* self.auto_refresh
    cookie_expiry_hours,    \* self.cookie_expiry_hours
    SELENIUM_AVAILABLE,     \* whether the selenium import succeeded
    lastCall,               \* the last call on the manager: its inputs and what it gave
    lastHarvest,            \* history: the last harvest that returned True
    writers,                \* two processes inside _save_cookies_to_file
    loaded,                 \* what a third process last loaded from the file
    \* ---- ProductPricing and the pricing a scraper extracts
    built,                  \* the last ProductPricing(...) construction
    extracted,              \* the last _extract_pricing run and the record it led to
    breaks,                 \* the last validate_quantity_breaks call
    exported                \* the last to_inventree_format call

fetchVars == <<now, delay_between_requests, max_retries, last_request_time, pc,
               attempt, e, outcome, fetches, getCount, failCount, sleeps,
               prevGetAt, lastGetAt>>

registryVars == <<scrapers, domain_mapping, registrations, resolved, firstSeen>>

scrapeVars == <<scraper, urls, idx, results, batchPc, lastScrape, made>>

cookieVars == <<clock, ticks, cookie_file, cookies, auto_refresh, cookie_expiry_hours,
                SELENIUM_AVAILABLE, lastCall, lastHarvest, writers, loaded>>

pricingVars == <<built, extracted, breaks, exported>>

vars == <<fetchVars, registryVars, scrapeVars, cookieVars, pricingVars>>

notFetchVars == <<registryVars, scrapeVars, cookieVars, pricingVars>>
notRegistryVars == <<fetchVars, scrapeVars, cookieVars, pricingVars>>
notScrapeVars == <<fetchVars, registryVars, cookieVars, pricingVars>>
notCookieVars == <<fetchVars, registryVars, scrapeVars, pricingVars>>
notPricingVars == <<fetchVars, registryVars, scrapeVars, cookieVars>>

(***************************************************************************)
(* Bounds of the model.                                                     *)
(***************************************************************************)
MaxDelay == 2        \* delay_between_requests ranges over 0..MaxDelay
MaxRetriesBound == 3 \* max_retries ranges over MinRetries..MaxRetriesBound
MaxFetches == 2      \* _make_request calls per instance
MaxLatency == 0      \* a GET takes 0..MaxLatency seconds (0: less than a clock tick)
MaxOversleep == 0    \* time.sleep(d) returns after d..d+MaxOversleep seconds
MaxGap == 1          \* the caller waits 0..MaxGap seconds between two fetches
Epoch == 10          \* time.time() when the scraper is constructed

MinRetries == 0 - 1  \* max_retries is not validated: a negative value is accepted

None == [kind |-> "None", status |-> 0, type |-> "", origin |-> 0]

(***************************************************************************)
(* What one session.get can do: a response with a status code (redirects    *)
(* with a Location are followed inside session.get, so a 3xx that comes out *)
(* is one without a target, such as 304), or a transport exception, which   *)
(* requests raises as a subclass of RequestException.                       *)
(***************************************************************************)
Statuses == {200, 304, 404, 503}
TransportErrors == {"ConnectionError"}

GetOutcomes ==
    {[kind |-> "response", status |-> s, type |-> "", origin |-> 0] : s \in Statuses}
    \cup
    {[kind |-> "exception", status |-> 0, type |-> t, origin |-> 0] : t \in TransportErrors}

\* response.raise_for_status(): HTTPError exactly for the 4xx and 5xx codes
RaiseForStatus(status) == status >= 400 /\ status < 600

\* The exception one attempt ends in, or None when it ends in a returned response.
\* origin records the attempt that raised it (an identity, not a field of the object).
AttemptException(o, k) ==
    IF o.kind = "exception"
    THEN [kind |-> "exception", status |-> 0, type |-> o.type, origin |-> k]
    ELSE IF RaiseForStatus(o.status)
    THEN [kind |-> "exception", status |-> o.status, type |-> "HTTPError", origin |-> k]
    ELSE None

\* except requests.exceptions.RequestException: all of the above are subclasses
IsRequestException(x) ==
    x.kind = "exception" /\ x.type \in TransportErrors \cup {"HTTPError"}

\* (mutation of AttemptsAllowed: range(self.max_retries), one attempt short)
AttemptsAllowed_OffByOne(retries) == retries

\* range(self.max_retries + 1)
AttemptsAllowed(retries) == retries + 1

RECURSIVE Pow2(_)
Pow2(n) == IF n <= 0 THEN 1 ELSE 2 * Pow2(n - 1)

\* (mutation of BackoffSleep: linear instead of exponential backoff)
BackoffSleep_Linear(k, delay) == (k + 1) * delay

\* sleep_time = (2**attempt) * self.delay_between_requests
BackoffSleep(k, delay) == Pow2(k) * delay

\* if attempt == self.max_retries: raise
IsLastAttempt(k, retries) == k = retries

\* the sleep of _enforce_rate_limit, given time.time() and the instance's state
RateLimitSleep(current_time, last, delay) ==
    LET time_since_last == current_time - last
    IN  IF time_since_last < delay THEN delay - time_since_last ELSE 0

(***************************************************************************)
(* BaseScraper.__init__: the configuration is stored as given.              *)
(***************************************************************************)
InitFetch ==
    /\ now = Epoch
    /\ delay_between_requests \in 0..MaxDelay
    /\ max_retries \in MinRetries..MaxRetriesBound
    /\ last_request_time = 0
    /\ pc = "idle"
    /\ attempt = 0
    /\ e = None
    /\ outcome = None
    /\ fetches = 0
    /\ getCount = 0
    /\ failCount = 0
    /\ sleeps = <<>>
    /\ prevGetAt = 0 - 1
    /\ lastGetAt = 0 - 1

\* The caller enters _make_request, at once or some seconds after the last fetch.
MakeRequestCall ==
    /\ pc \in {"idle", "returned", "raised"}
    /\ fetches < MaxFetches
    /\ \E gap \in 0..MaxGap : now' = now + gap
    /\ pc' = "rate_limit"
    /\ fetches' = fetches + 1
    /\ attempt' = 0
    /\ e' = None
    /\ outcome' = None
    /\ getCount' = 0
    /\ failCount' = 0
    /\ sleeps' = <<>>
    /\ UNCHANGED <<delay_between_requests, max_retries, last_request_time,
                   prevGetAt, lastGetAt>>
    /\ UNCHANGED notFetchVars

\* _enforce_rate_limit, called once per _make_request before the retry loop
EnforceRateLimit ==
    /\ pc = "rate_limit"
    /\ LET sleep_time == RateLimitSleep(now, last_request_time, delay_between_requests)
       IN  \E over \in 0..MaxOversleep :
             /\ now' = now + sleep_time + (IF sleep_time > 0 THEN over ELSE 0)
             /\ last_request_time' = now'
    /\ pc' = "loop"
    /\ UNCHANGED <<delay_between_requests, max_retries, attempt, e, outcome, fetches,
                   getCount, failCount, sleeps, prevGetAt, lastGetAt>>
    /\ UNCHANGED notFetchVars

\* session.get(url, timeout=...) is issued now and ends lat seconds later
SessionGet(lat) ==
    /\ pc = "loop"
    /\ attempt < AttemptsAllowed(max_retries)
    /\ getCount' = getCount + 1
    /\ prevGetAt' = lastGetAt
    /\ lastGetAt' = now
    /\ lat \in 0..MaxLatency

\* the attempt gives a response and raise_for_status passes: return response
AttemptReturns ==
    \E o \in GetOutcomes, lat \in 0..MaxLatency :
        /\ SessionGet(lat)
        /\ AttemptException(o, attempt) = None
        /\ now' = now + lat
        /\ outcome' = o
        /\ pc' = "returned"
        /\ UNCHANGED <<delay_between_requests, max_retries, last_request_time, attempt,
                       e, fetches, failCount, sleeps>>
        /\ UNCHANGED notFetchVars

\* the attempt raises, attempts remain: sleep 2**attempt * delay and go round
AttemptRetries ==
    \E o \in GetOutcomes, lat \in 0..MaxLatency, over \in 0..MaxOversleep :
        LET exc == AttemptException(o, attempt)
            sleep_time == BackoffSleep(attempt, delay_between_requests)
        IN  /\ SessionGet(lat)
            /\ IsRequestException(exc)
            /\ ~IsLastAttempt(attempt, max_retries)
            /\ e' = exc
            /\ failCount' = failCount + 1
            /\ sleeps' = Append(sleeps, sleep_time)
            /\ now' = now + lat + sleep_time + (IF sleep_time > 0 THEN over ELSE 0)
            /\ attempt' = attempt + 1
            /\ pc' = "loop"
            /\ UNCHANGED <<delay_between_requests, max_retries, last_request_time,
                           outcome, fetches>>
            /\ UNCHANGED notFetchVars

\* (mutation of Reraised: the exception of the attempt before is kept and raised)
Reraised_Earlier(bound, current) == IF bound = None THEN current ELSE bound

\* the exception the bare raise statement propagates: the one being handled
Reraised(bound, current) == current

\* the attempt raises and attempt == max_retries: the bare raise propagates it
AttemptRaises ==
    \E o \in GetOutcomes, lat \in 0..MaxLatency :
        LET exc == AttemptException(o, attempt)
        IN  /\ SessionGet(lat)
            /\ IsRequestException(exc)
            /\ IsLastAttempt(attempt, max_retries)
            /\ e' = exc
            /\ failCount' = failCount + 1
            /\ now' = now + lat
            /\ outcome' = Reraised(e, exc)
            /\ pc' = "raised"
            /\ UNCHANGED <<delay_between_requests, max_retries, last_request_time,
                           attempt, fetches, sleeps>>
            /\ UNCHANGED notFetchVars

\* range(max_retries + 1) is used up without a return or a raise: the function
\* body ends and Python returns None
LoopFallsThrough ==
    /\ pc = "loop"
    /\ attempt >= AttemptsAllowed(max_retries)
    /\ outcome' = None
    /\ pc' = "returned"
    /\ UNCHANGED <<now, delay_between_requests, max_retries, last_request_time, attempt,
                   e, fetches, getCount, failCount, sleeps, prevGetAt, lastGetAt>>
    /\ UNCHANGED notFetchVars

NextFetch ==
    \/ MakeRequestCall
    \/ EnforceRateLimit
    \/ AttemptReturns
    \/ AttemptRetries
    \/ AttemptRaises
    \/ LoopFallsThrough


(***************************************************************************)
(* Claims about the request client, checked under SpecFetch.               *)
(***************************************************************************)
Max0(n) == IF n > 0 THEN n ELSE 0

RECURSIVE SumSeq(_)
SumSeq(s) == IF s = <<>> THEN 0 ELSE Head(s) + SumSeq(Tail(s))

FetchEnded == pc \in {"returned", "raised"}

\* C1 (as stated): a fetch issues at most maxRetries+1 GETs, every attempt that
\* ends in a transport error or a non-2xx status is retried while attempts
\* remain (so a response is only ever returned with a 2xx status), and the
\* fetch fails only after exactly maxRetries+1 failed attempts.
C1_AsStated ==
    /\ getCount <= max_retries + 1
    /\ (pc = "returned" /\ outcome # None) =>
           (outcome.status >= 200 /\ outcome.status < 300)
    /\ pc = "raised" => failCount = max_retries + 1

\* C1 (amended): a fetch issues at most max(0, maxRetries+1) GETs; an attempt is
\* retried, while attempts remain, exactly when it ends in a RequestException,
\* that is a transport error or a 4xx/5xx status; a response with any other
\* status (2xx, or a non-2xx such as 304) is returned at once, after nothing
\* but failed attempts; the fetch raises only after exactly maxRetries+1
\* attempts, all of them failed.
C1_RetryBound ==
    /\ getCount <= Max0(max_retries + 1)
    /\ failCount <= getCount
    /\ pc = "loop" => (failCount = getCount /\ attempt = getCount)
    /\ pc = "raised" => (failCount = max_retries + 1 /\ getCount = max_retries + 1)
    /\ (pc = "returned" /\ outcome # None) =>
           /\ outcome.kind = "response"
           /\ ~(outcome.status >= 400 /\ outcome.status < 600)
           /\ failCount = getCount - 1
    /\ (pc = "returned" /\ outcome = None) => getCount = 0
    /\ (FetchEnded /\ max_retries >= 0) => getCount >= 1

\* C1 witness: a fetch with maxRetries = 2 has failed after three failed GETs.
C1_Witness ==
    pc = "raised" /\ max_retries = 2 /\ getCount = 3 /\ failCount = 3

\* C2 (as stated): any two consecutive GETs of one client instance are at least
\* delayBetweenRequests apart, retries and successive fetches alike.
C2_AsStated ==
    prevGetAt >= 0 => lastGetAt - prevGetAt >= delay_between_requests

\* C3: the sleep after failed attempt k (from 0, k < maxRetries) is exactly
\* 2^k * delayBetweenRequests, no sleep follows the final failed attempt, the
\* time since the loop began is at least the sum of the sleeps, and with
\* maxRetries = 3, delay = 1 four failures give the sleeps 1, 2, 4 (total 7).
C3_Backoff ==
    /\ \A k \in 1..Len(sleeps) : sleeps[k] = Pow2(k - 1) * delay_between_requests
    /\ Len(sleeps) = (IF pc = "raised" THEN failCount - 1 ELSE failCount)
    /\ pc = "raised" => Len(sleeps) = max_retries
    /\ pc \in {"loop", "returned", "raised"} => now - last_request_time >= SumSeq(sleeps)
    /\ (pc = "raised" /\ max_retries = 3 /\ delay_between_requests = 1) =>
           (sleeps = <<1, 2, 4>> /\ SumSeq(sleeps) = 7 /\ failCount = 4)

\* C3 witness: maxRetries = 3, delay = 1, the fourth failure has propagated.
C3_Witness ==
    /\ pc = "raised" /\ max_retries = 3 /\ delay_between_requests = 1
    /\ sleeps = <<1, 2, 4>> /\ now - last_request_time >= 7

\* C4 (as stated): the error that reaches the caller on exhaustion carries the
\* number of attempts made and is the failure of the last attempt.
C4_AsStated ==
    pc = "raised" =>
        /\ IsRequestException(outcome)
        /\ outcome.origin = max_retries
        /\ "attempts" \in DOMAIN outcome
        /\ outcome.attempts = max_retries + 1

\* C4 (amended): the error that reaches the caller on exhaustion is the
\* RequestException of the last attempt itself, re-raised unchanged: not one of
\* an earlier attempt, and with no attempt count added to it.
C4_LastError ==
    pc = "raised" =>
        /\ IsRequestException(outcome)
        /\ outcome = e
        /\ outcome.origin = max_retries
        /\ outcome.origin = getCount - 1
        /\ DOMAIN outcome = {"kind", "status", "type", "origin"}

\* C4 witness: a fetch with retries has failed and raised its last exception.
C4_Witness ==
    pc = "raised" /\ max_retries >= 2 /\ outcome.origin = max_retries

\* C5 (as stated): for every configured maxRetries a fetch ends with a response
\* or with an error, and never before at least one GET was issued.
C5_AsStated ==
    FetchEnded => (getCount >= 1 /\ outcome # None)

(***************************************************************************)
(* Strings. A Python str is a sequence of one-character strings, so that    *)
(* lower(), startswith(), endswith() and urlparse() are computed, not       *)
(* assumed.                                                                 *)
(***************************************************************************)
UpperCase == <<"A", "B", "C", "D", "E", "F", "G", "H", "I", "J", "K", "L", "M",
               "N", "O", "P", "Q", "R", "S", "T", "U", "V", "W", "X", "Y", "Z">>
LowerCase == <<"a", "b", "c", "d", "e", "f", "g", "h", "i", "j", "k", "l", "m",
               "n", "o", "p", "q", "r", "s", "t", "u", "v", "w", "x", "y", "z">>
Digits == {"0", "1", "2", "3", "4", "5", "6", "7", "8", "9"}
Letters == {UpperCase[i] : i \in DOMAIN UpperCase} \cup {LowerCase[i] : i \in DOMAIN LowerCase}

\* str.lower(), one character
LowerChar(c) ==
    IF \E i \in DOMAIN UpperCase : UpperCase[i] = c
    THEN LowerCase[CHOOSE i \in DOMAIN UpperCase : UpperCase[i] = c]
    ELSE c

\* str.lower()
Lower(str) == [i \in 1..Len(str) |-> LowerChar(str[i])]

\* str.startswith(prefix)
StartsWith(str, prefix) ==
    Len(prefix) <= Len(str) /\ SubSeq(str, 1, Len(prefix)) = prefix

\* str.endswith(suffix)
EndsWith(str, suffix) ==
    Len(suffix) <= Len(str) /\ SubSeq(str, Len(str) - Len(suffix) + 1, Len(str)) = suffix

\* the first index >= from of a character of chars in str, 0 when there is none
FirstIndex(str, chars, from) ==
    IF \E i \in from..Len(str) : str[i] \in chars
    THEN CHOOSE i \in from..Len(str) :
             str[i] \in chars /\ \A j \in from..(i - 1) : str[j] \notin chars
    ELSE 0

(***************************************************************************)
(* urllib.parse.urlparse(url).netloc: a valid scheme and its ":" are split  *)
(* off; the netloc is what follows a leading "//" up to the next "/", "?"   *)
(* or "#", and is empty when the rest does not begin with "//". A netloc    *)
(* with one square bracket but not the other raises ValueError.             *)
(***************************************************************************)
SchemeChars == Letters \cup Digits \cup {"+", "-", "."}

AfterScheme(url) ==
    LET i == FirstIndex(url, {":"}, 1)
    IN  IF i > 1 /\ url[1] \in Letters /\ \A j \in 1..(i - 1) : url[j] \in SchemeChars
        THEN SubSeq(url, i + 1, Len(url))
        ELSE url

Netloc(url) ==
    LET rest == AfterScheme(url)
        delim == FirstIndex(rest, {"/", "?", "#"}, 3)
    IN  IF StartsWith(rest, <<"/", "/">>)
        THEN SubSeq(rest, 3, IF delim = 0 THEN Len(rest) ELSE delim - 1)
        ELSE <<>>

UrlParseRaises(url) ==
    LET chars == {Netloc(url)[i] : i \in 1..Len(Netloc(url))}
    IN  ("[" \in chars /\ "]" \notin chars) \/ ("]" \in chars /\ "[" \notin chars)

\* if domain.startswith("www."): domain = domain[4:]
StripWww(domain) ==
    IF StartsWith(domain, <<"w", "w", "w", ".">>)
    THEN SubSeq(domain, 5, Len(domain))
    ELSE domain

\* domain = parsed_url.netloc.lower(), without a leading "www."
UrlDomain(url) == StripWww(Lower(Netloc(url)))

(***************************************************************************)
(* The strings the registry is exercised with.                              *)
(***************************************************************************)
Https == <<"h", "t", "t", "p", "s", ":", "/", "/">>
PathX == <<"/", "x">>

D_acme_com == <<"a", "c", "m", "e", ".", "c", "o", "m">>
D_Acme_COM == <<"A", "c", "m", "e", ".", "C", "O", "M">>
D_shop_acme_com == <<"s", "h", "o", "p", ".">> \o D_acme_com
D_notacme_com == <<"n", "o", "t">> \o D_acme_com
D_me_com == <<"m", "e", ".", "c", "o", "m">>
D_beta_org == <<"b", "e", "t", "a", ".", "o", "r", "g">>
D_unknown_net == <<"u", "n", "k", "n", "o", "w", "n", ".", "n", "e", "t">>

V_acme == <<"a", "c", "m", "e">>
V_ACME == <<"A", "C", "M", "E">>
V_beta == <<"b", "e", "t", "a">>

U_acme == Https \o D_acme_com \o PathX                                \* https://acme.com/x
U_WWW_Acme == Https \o <<"W", "W", "W", ".">> \o D_Acme_COM \o PathX  \* https://WWW.Acme.COM/x
U_shop_acme == Https \o D_shop_acme_com \o PathX                      \* https://shop.acme.com/x
U_notacme == Https \o D_notacme_com \o PathX                          \* https://notacme.com/x
U_me_com == Https \o D_me_com \o PathX                                \* https://me.com/x
U_beta == Https \o D_beta_org \o PathX                                \* https://beta.org/x
U_unknown == Https \o D_unknown_net \o PathX                          \* https://unknown.net/x
U_no_scheme == D_acme_com \o PathX                                    \* acme.com/x
U_bad_bracket == Https \o <<"[">> \o D_acme_com \o PathX              \* https://[acme.com/x

RegistryUrls == {U_acme, U_WWW_Acme, U_shop_acme, U_notacme, U_me_com, U_beta,
                 U_unknown, U_no_scheme, U_bad_bracket}

VendorNames == {V_acme, V_ACME, V_beta}
ScraperClasses == {"AcmeScraper", "BetaScraper"}   \* subclasses of BaseScraper
OtherClasses == {"dict"}                           \* not a subclass of BaseScraper
DomainLists == {<<>>, <<D_acme_com>>, <<D_Acme_COM>>, <<D_shop_acme_com>>,
                <<D_acme_com, D_shop_acme_com>>, <<D_beta_org>>}

MaxRegistrations == 2   \* register_scraper calls

(***************************************************************************)
(* ScraperFactory. _domain_mapping is a dict: it keeps insertion order, and *)
(* assigning to a key that is present keeps the key's place.                *)
(***************************************************************************)
DictHas(m, k) == \E i \in 1..Len(m) : m[i].domain = k

DictGet(m, k) == m[CHOOSE i \in 1..Len(m) : m[i].domain = k].vendor

\* (mutation of DictSet: assigning to a key that is present moves it to the end)
DictSet_MoveToEnd(m, k, v) ==
    Append(SelectSeq(m, LAMBDA x : x.domain # k), [domain |-> k, vendor |-> v])

\* self._domain_mapping[k] = v
DictSet(m, k, v) ==
    IF DictHas(m, k)
    THEN [i \in 1..Len(m) |-> IF m[i].domain = k THEN [domain |-> k, vendor |-> v] ELSE m[i]]
    ELSE Append(m, [domain |-> k, vendor |-> v])

\* for domain in domains: self._domain_mapping[domain.lower()] = vendor_name.lower()
RECURSIVE RegisterDomains(_, _, _)
RegisterDomains(m, domains, vendor_key) ==
    IF domains = <<>> THEN m
    ELSE RegisterDomains(DictSet(m, Lower(Head(domains)), vendor_key), Tail(domains),
                         vendor_key)

NoInstance == [kind |-> "None", vendor |-> <<>>, cls |-> ""]
Raised(exc) == [kind |-> "raise", vendor |-> <<>>, cls |-> exc]
NoHistory == [order |-> <<>>, owner |-> <<>>]

\* the history after one more register_scraper(vendor_name, _, domains) call
RECURSIVE Logged(_, _, _)
Logged(h, domains, vendor_key) ==
    IF domains = <<>> THEN h
    ELSE LET d == Lower(Head(domains))
             known == \E i \in 1..Len(h.order) : h.order[i] = d
             h1 == IF known
                   THEN [h EXCEPT !.owner = [i \in 1..Len(h.order) |->
                                               IF h.order[i] = d THEN vendor_key
                                               ELSE h.owner[i]]]
                   ELSE [order |-> Append(h.order, d), owner |-> Append(h.owner, vendor_key)]
         IN  Logged(h1, Tail(domains), vendor_key)

NotResolved == [called |-> FALSE, url |-> <<>>, ctorOk |-> FALSE, result |-> NoInstance]

InitRegistry ==
    /\ scrapers = [k \in {} |-> ""]
    /\ domain_mapping = <<>>
    /\ registrations = 0
    /\ resolved = NotResolved
    /\ firstSeen = NoHistory

\* register_scraper with a subclass of BaseScraper
RegisterScraper ==
    \E vendor_name \in VendorNames, scraper_class \in ScraperClasses, domains \in DomainLists :
        LET vendor_key == Lower(vendor_name)
        IN  /\ registrations < MaxRegistrations
            /\ registrations' = registrations + 1
            /\ scrapers' = [k \in DOMAIN scrapers \cup {vendor_key} |->
                               IF k = vendor_key THEN scraper_class ELSE scrapers[k]]
            /\ domain_mapping' = RegisterDomains(domain_mapping, domains, vendor_key)
            /\ firstSeen' = Logged(firstSeen, domains, vendor_key)
            /\ resolved' = NotResolved
            /\ UNCHANGED notRegistryVars

\* register_scraper with a class that is no BaseScraper: TypeError, nothing stored
RegisterRejected ==
    \E vendor_name \in VendorNames, scraper_class \in OtherClasses, domains \in DomainLists :
        /\ registrations < MaxRegistrations
        /\ registrations' = registrations + 1
        /\ resolved' = NotResolved
        /\ UNCHANGED <<scrapers, domain_mapping, firstSeen>>
        /\ UNCHANGED notRegistryVars

\* get_scraper_by_vendor; ctorOk tells whether scraper_class(**kwargs) succeeds
get_scraper_by_vendor(vendor_name, ctorOk) ==
    LET vendor_key == Lower(vendor_name)
    IN  IF vendor_key \notin DOMAIN scrapers THEN NoInstance
        ELSE IF ctorOk
        THEN [kind |-> "instance", vendor |-> vendor_key, cls |-> scrapers[vendor_key]]
        ELSE NoInstance

\* (mutation of PartialMatch: a suffix counts only at a dot boundary)
PartialMatch_DotBoundary(domain, registered_domain) ==
    EndsWith(domain, <<".">> \o registered_domain)

\* domain.endswith(registered_domain) or registered_domain.endswith(domain)
PartialMatch(domain, registered_domain) ==
    EndsWith(domain, registered_domain) \/ EndsWith(registered_domain, domain)

\* for registered_domain, vendor_name in self._domain_mapping.items(): the first hit
FirstPartial(domain) ==
    IF \E i \in 1..Len(domain_mapping) : PartialMatch(domain, domain_mapping[i].domain)
    THEN CHOOSE i \in 1..Len(domain_mapping) :
             /\ PartialMatch(domain, domain_mapping[i].domain)
             /\ \A j \in 1..(i - 1) : ~PartialMatch(domain, domain_mapping[j].domain)
    ELSE 0

\* (mutation of OnUrlError: no except clause, the exception leaves the method)
OnUrlError_Propagates(exc) == Raised(exc)

\* except Exception as e: log the error, return None
OnUrlError(exc) == NoInstance

get_scraper_by_url(url, ctorOk) ==
    IF UrlParseRaises(url) THEN OnUrlError("ValueError")
    ELSE LET domain == UrlDomain(url)
         IN  IF DictHas(domain_mapping, domain)
             THEN get_scraper_by_vendor(DictGet(domain_mapping, domain), ctorOk)
             ELSE IF FirstPartial(domain) > 0
             THEN get_scraper_by_vendor(domain_mapping[FirstPartial(domain)].vendor, ctorOk)
             ELSE NoInstance

\* a caller resolves a URL
Resolve ==
    \E url \in RegistryUrls, ctorOk \in BOOLEAN :
        /\ resolved' = [called |-> TRUE, url |-> url, ctorOk |-> ctorOk,
                        result |-> get_scraper_by_url(url, ctorOk)]
        /\ UNCHANGED <<scrapers, domain_mapping, registrations, firstSeen>>
        /\ UNCHANGED notRegistryVars

NextRegistry ==
    \/ RegisterScraper
    \/ RegisterRejected
    \/ Resolve

(***************************************************************************)
(* Claims about the registry, checked under SpecRegistry.                   *)
(***************************************************************************)
\* a is a suffix of b, stated on its own
IsSuffixOf(a, b) == \E k \in 0..Len(b) : SubSeq(b, k + 1, Len(b)) = a

RegisteredDomains == {domain_mapping[i].domain : i \in 1..Len(domain_mapping)}

SuffixRelated(d) ==
    {i \in 1..Len(domain_mapping) :
        IsSuffixOf(domain_mapping[i].domain, d) \/ IsSuffixOf(d, domain_mapping[i].domain)}

\* C9 (as stated): for every URL whose domain (lower-cased, leading "www."
\* stripped) was never registered, get_scraper_by_url returns None and raises
\* nothing.
C9_AsStated ==
    (resolved.called /\ ~UrlParseRaises(resolved.url)
        /\ UrlDomain(resolved.url) \notin RegisteredDomains)
    => resolved.result = NoInstance

\* C9 (amended): get_scraper_by_url never raises, and it returns None for every
\* URL whose domain (lower-cased, leading "www." stripped) is neither a
\* registered domain, nor ends with a registered domain, nor is the ending of a
\* registered domain; a URL that cannot be parsed gives None as well.
C9_UnrelatedIsNone ==
    resolved.called =>
        /\ resolved.result.kind \in {"None", "instance"}
        /\ UrlParseRaises(resolved.url) => resolved.result = NoInstance
        /\ (~UrlParseRaises(resolved.url) /\ SuffixRelated(UrlDomain(resolved.url)) = {})
               => resolved.result = NoInstance

\* C9 witness: with domains registered, a URL of an unrelated domain gave None.
C9_Witness ==
    /\ resolved.called /\ resolved.url = U_unknown /\ resolved.ctorOk
    /\ Len(domain_mapping) >= 2
    /\ resolved.result = NoInstance

\* C10: an exact domain match decides first; otherwise a host h is accepted for
\* a registered domain r when h ends with r or r ends with h, as plain strings;
\* with only "acme.com" registered for acme, shop.acme.com and notacme.com both
\* resolve to an acme instance; a host equal to a registered domain resolves to
\* that domain's vendor even when an earlier registered domain suffix-matches.
C10_MatchRule ==
    (resolved.called /\ ~UrlParseRaises(resolved.url) /\ resolved.ctorOk) =>
        LET d == UrlDomain(resolved.url)
            r == resolved.result
        IN  /\ d \in RegisteredDomains =>
                  /\ r.kind = "instance"
                  /\ \E i \in 1..Len(domain_mapping) :
                        domain_mapping[i].domain = d /\ domain_mapping[i].vendor = r.vendor
            /\ (d \notin RegisteredDomains /\ SuffixRelated(d) # {}) =>
                  /\ r.kind = "instance"
                  /\ \E i \in SuffixRelated(d) : domain_mapping[i].vendor = r.vendor
            /\ SuffixRelated(d) = {} => r = NoInstance
            /\ r.kind = "instance" => r.cls = scrapers[r.vendor]
            /\ (domain_mapping = <<[domain |-> D_acme_com, vendor |-> V_acme]>>
                  /\ resolved.url \in {U_shop_acme, U_notacme, U_me_com, U_WWW_Acme})
               => (r.kind = "instance" /\ r.vendor = V_acme)

\* C10 witness: acme.com was registered for acme before shop.acme.com for beta,
\* and https://shop.acme.com/x resolved to beta, the vendor of the exact match.
C10_Witness ==
    /\ domain_mapping = <<[domain |-> D_acme_com, vendor |-> V_acme],
                          [domain |-> D_shop_acme_com, vendor |-> V_beta]>>
    /\ resolved.called /\ resolved.url = U_shop_acme /\ resolved.ctorOk
    /\ resolved.result.kind = "instance" /\ resolved.result.vendor = V_beta

\* (reached as well: only acme.com registered, https://notacme.com/x gives acme)
NotAcmeResolved ==
    /\ domain_mapping = <<[domain |-> D_acme_com, vendor |-> V_acme]>>
    /\ resolved.called /\ resolved.url = U_notacme
    /\ resolved.result.kind = "instance" /\ resolved.result.vendor = V_acme

\* the places, in first-registration order, of the domains that suffix-match d
HistoryMatches(d) ==
    {i \in 1..Len(firstSeen.order) :
        IsSuffixOf(firstSeen.order[i], d) \/ IsSuffixOf(d, firstSeen.order[i])}

\* C11: when the host has no exact match and several registered domains
\* suffix-match it, get_scraper_by_url returns the vendor of the one that was
\* registered first among them, whatever the order of the register_scraper
\* calls; a domain registered again for another vendor keeps the place of its
\* first registration and stands for the vendor of its last.
C11_FirstRegisteredWins ==
    (resolved.called /\ ~UrlParseRaises(resolved.url) /\ resolved.ctorOk) =>
        LET d == UrlDomain(resolved.url)
            M == HistoryMatches(d)
        IN  ((\A i \in 1..Len(firstSeen.order) : firstSeen.order[i] # d) /\ M # {}) =>
                LET first == CHOOSE i \in M : \A j \in M : i <= j
                IN  /\ resolved.result.kind = "instance"
                    /\ resolved.result.vendor = firstSeen.owner[first]

\* C11 witness: acme.com and shop.acme.com were registered for acme, then
\* acme.com again for beta; https://me.com/x matches both domains and resolves
\* to beta, the vendor acme.com now stands for.
C11_Witness ==
    /\ firstSeen.order = <<D_acme_com, D_shop_acme_com>>
    /\ firstSeen.owner = <<V_beta, V_acme>>
    /\ resolved.called /\ resolved.url = U_me_com /\ resolved.ctorOk
    /\ resolved.result.kind = "instance" /\ resolved.result.vendor = V_beta

\* is_url_supported: return self.get_scraper_by_url(url) is not None
is_url_supported(url) == get_scraper_by_url(url, TRUE) # NoInstance

\* the last URL resolved has no host component
HostlessResolved ==
    resolved.called /\ ~UrlParseRaises(resolved.url) /\ Netloc(resolved.url) = <<>>

\* C28: for a URL with an empty netloc get_scraper_by_url returns None and
\* is_url_supported returns False, whatever the registry holds.
C28_AsStated ==
    HostlessResolved =>
        /\ resolved.result = NoInstance
        /\ ~is_url_supported(resolved.url)

\* what the code does with such a URL: with no domain registered it gives None,
\* and with one registered the empty domain is a suffix of the first registered
\* domain, so that domain's vendor is constructed
HostlessGoesToFirst ==
    HostlessResolved =>
        /\ is_url_supported(resolved.url) = (domain_mapping # <<>>)
        /\ resolved.result =
               IF domain_mapping = <<>> THEN NoInstance
               ELSE get_scraper_by_vendor(domain_mapping[1].vendor, resolved.ctorOk)


(***************************************************************************)
(* ScrapingResult: the dataclass fields and __post_init__.                  *)
(***************************************************************************)
NoProduct == "<None>"   \* product_info is None
NoMessage == "<None>"   \* error_message is None
ProductInfos == {NoProduct, "ProductInfo"}
Messages == {NoMessage, "boom"}

NoExc == [cls |-> "", msg |-> ""]
Exc(cls, msg) == [cls |-> cls, msg |-> msg]
Returned(value) == [kind |-> "return", value |-> value, exc |-> NoExc]
Fields(success, product_info, error_message, http_status_code) ==
    [success |-> success, product_info |-> product_info,
     error_message |-> error_message, http_status_code |-> http_status_code]
Threw(exc) == [kind |-> "raise", value |-> Fields(FALSE, NoProduct, NoMessage, 0), exc |-> exc]

\* (mutation of PostInit: the success-without-product check is missing)
PostInit_Unchecked(obj) ==
    Returned(IF ~obj.success /\ obj.error_message = NoMessage
             THEN [obj EXCEPT !.error_message = "Unknown error occurred"]
             ELSE obj)

\* ScrapingResult.__post_init__
PostInit(obj) ==
    IF obj.success /\ obj.product_info = NoProduct
    THEN Threw(Exc("ValueError", "Successful scraping result must include product_info"))
    ELSE IF ~obj.success /\ obj.error_message = NoMessage
    THEN Returned([obj EXCEPT !.error_message = "Unknown error occurred"])
    ELSE Returned(obj)

\* ScrapingResult(success=..., product_info=..., error_message=..., http_status_code=...)
ScrapingResult(success, product_info, error_message, http_status_code) ==
    PostInit(Fields(success, product_info, error_message, http_status_code))

(***************************************************************************)
(* Exceptions: the classes that occur and their base classes.               *)
(***************************************************************************)
Bases(cls) ==
    CASE cls \in {"HTTPError", "ConnectionError"} -> {cls, "RequestException", "Exception"}
      [] cls \in {"ValidationError", "FeatureNotFound"} -> {cls, "ValueError", "Exception"}
      [] OTHER -> {cls, "Exception"}

\* does "except handler_class" catch exc
Catches(handler_class, exc) == handler_class \in Bases(exc.cls)

(***************************************************************************)
(* validate_url of the two vendor scrapers.                                 *)
(***************************************************************************)
D_rs_online_com == <<"r", "s", "-", "o", "n", "l", "i", "n", "e", ".", "c", "o", "m">>
D_mouser_com == <<"m", "o", "u", "s", "e", "r", ".", "c", "o", "m">>

rs_domains ==
    {D_rs_online_com} \cup
    {cc \o <<".">> \o D_rs_online_com :
        cc \in {<<"u", "k">>, <<"a", "u">>, <<"s", "g">>, <<"e", "x", "p", "o", "r", "t">>,
                <<"i", "e">>, <<"f", "r">>, <<"d", "e">>}}

mouser_domains ==
    {D_mouser_com} \cup
    {cc \o <<".">> \o D_mouser_com :
        cc \in {<<"a", "u">>, <<"u", "k">>, <<"d", "e">>, <<"f", "r">>}}

validate_url(cls, url) ==
    IF UrlParseRaises(url) THEN FALSE
    ELSE UrlDomain(url) \in (IF cls = "MouserScraper" THEN mouser_domains ELSE rs_domains)

U_rs_au == Https \o <<"a", "u", ".">> \o D_rs_online_com \o PathX      \* https://au.rs-online.com/x
U_mouser == Https \o <<"W", "W", "W", ".">> \o D_mouser_com \o PathX   \* https://WWW.mouser.com/x

ScrapeUrls == {U_rs_au, U_mouser, U_bad_bracket}

VendorScrapers == {"RSComponentsScraper", "MouserScraper"}
ScraperKinds == VendorScrapers \cup {"OtherScraper"}   \* any further BaseScraper subclass

MaxUrls == 2   \* length of the list given to scrape_multiple_products

(***************************************************************************)
(* What the steps of one scrape_product call meet. fetch is how             *)
(* _make_request ends: with a response, with the                            *)
(* RequestException of the last attempt, or with None (max_retries < 0).    *)
(***************************************************************************)
FetchEndings ==
    {[kind |-> "response", status |-> st, exc |-> NoExc] : st \in {200}}
    \cup
    {[kind |-> "raise", status |-> 0, exc |-> x] :
        x \in {Exc("HTTPError", "404 Client Error: Not Found")}}
    \cup
    {[kind |-> "None", status |-> 0, exc |-> NoExc]}

ParseEndings == {NoExc, Exc("FeatureNotFound", "Couldn't find a tree builder: lxml")}

ExtractEndings ==
    {NoExc, Exc("AttributeError", "'NoneType' object has no attribute 'next_sibling'")}

\* a step that is not reached has no ending of its own
Envs ==
    {env \in [fetch : FetchEndings, parse : ParseEndings, extract : ExtractEndings] :
        /\ env.fetch.kind # "response" => env.parse = NoExc /\ env.extract = NoExc
        /\ env.parse # NoExc => env.extract = NoExc}

VendorLabel(cls) ==
    IF cls = "MouserScraper" THEN "Mouser Electronics" ELSE "RS Components"

\* the body of the try statement of scrape_product: what it returns or raises
TryBody(cls, url, env) ==
    IF ~validate_url(cls, url)
    THEN ScrapingResult(FALSE, NoProduct, "URL does not belong to " \o VendorLabel(cls), 0)
    ELSE IF env.fetch.kind = "raise" THEN Threw(env.fetch.exc)
    ELSE IF env.fetch.kind = "None"
    THEN \* response.text (RS) or response.cookies (Mouser's _make_request) on None
         Threw(Exc("AttributeError", "'NoneType' object has no attribute"))
    ELSE IF env.parse # NoExc THEN Threw(env.parse)
    ELSE IF env.extract # NoExc THEN Threw(env.extract)
    ELSE ScrapingResult(TRUE, "ProductInfo", NoMessage, env.fetch.status)

\* (mutation of ScrapeHandlerClass: only request errors are caught)
ScrapeHandlerClass_Narrow == "RequestException"

\* except Exception as e, in scrape_product
ScrapeHandlerClass == "Exception"

\* RSComponentsScraper.scrape_product and MouserScraper.scrape_product
scrape_product(cls, url, env) ==
    LET body == TryBody(cls, url, env)
    IN  IF body.kind = "raise" /\ Catches(ScrapeHandlerClass, body.exc)
        THEN ScrapingResult(FALSE, NoProduct, body.exc.msg, 0)
        ELSE body

\* scrape_product of another subclass: the abstract method promises a
\* ScrapingResult, and nothing keeps an implementation from raising
OtherEndings ==
    {ScrapingResult(TRUE, "ProductInfo", NoMessage, 200),
     ScrapingResult(FALSE, NoProduct, "boom", 0),
     ScrapingResult(FALSE, NoProduct, NoMessage, 0),
     Threw(Exc("RuntimeError", "boom")),
     Threw(Exc("KeyError", ""))}

NotScraped == [called |-> FALSE, cls |-> "", url |-> <<>>,
               env |-> [fetch |-> [kind |-> "None", status |-> 0, exc |-> NoExc],
                        parse |-> NoExc, extract |-> NoExc],
               out |-> Threw(NoExc)]
NotMade == [called |-> FALSE, args |-> Fields(FALSE, NoProduct, NoMessage, 0),
            out |-> Threw(NoExc)]

RECURSIVE SeqsUpTo(_, _)
SeqsUpTo(S, n) ==
    IF n = 0 THEN {<<>>}
    ELSE SeqsUpTo(S, n - 1) \cup {Append(q, x) : q \in SeqsUpTo(S, n - 1), x \in S}

InitScrape ==
    /\ scraper \in ScraperKinds
    /\ urls = <<>>
    /\ idx = 0
    /\ results = <<>>
    /\ batchPc = "idle"
    /\ lastScrape = NotScraped
    /\ made = NotMade

\* scrape_multiple_products(urls) is called: results = []
BatchStart ==
    /\ batchPc = "idle"
    /\ urls' \in SeqsUpTo(ScrapeUrls, MaxUrls)
    /\ idx' = 0
    /\ results' = <<>>
    /\ batchPc' = "running"
    /\ UNCHANGED <<scraper, lastScrape, made>>
    /\ UNCHANGED notScrapeVars

\* what scrape_product of this scraper can give for url
ScrapeEndings(cls, url) ==
    IF cls \in VendorScrapers
    THEN {[env |-> env, out |-> scrape_product(cls, url, env)] : env \in Envs}
    ELSE {[env |-> NotScraped.env, out |-> o] : o \in OtherEndings}

\* (mutation of OnScrapeError: the failed URL gets no entry)
OnScrapeError_Dropped(res, url, exc) == res

\* except Exception as e: results.append(ScrapingResult(success=False, error_message=...))
OnScrapeError(res, url, exc) ==
    Append(res, [for |-> url,
                 result |-> ScrapingResult(FALSE, NoProduct,
                                           "Unexpected error: " \o exc.msg, 0).value])

\* one round of the loop: scrape_product returned a result, which is appended
BatchStepReturns ==
    /\ batchPc = "running"
    /\ idx < Len(urls)
    /\ \E end \in ScrapeEndings(scraper, urls[idx + 1]) :
          /\ end.out.kind = "return"
          /\ lastScrape' = [called |-> TRUE, cls |-> scraper, url |-> urls[idx + 1],
                            env |-> end.env, out |-> end.out]
          /\ results' = Append(results, [for |-> urls[idx + 1], result |-> end.out.value])
    /\ idx' = idx + 1
    /\ UNCHANGED <<scraper, urls, batchPc, made>>
    /\ UNCHANGED notScrapeVars

\* one round of the loop: scrape_product raised; an Exception is caught and a
\* failure result appended, anything else leaves scrape_multiple_products
BatchStepRaises ==
    /\ batchPc = "running"
    /\ idx < Len(urls)
    /\ \E end \in ScrapeEndings(scraper, urls[idx + 1]) :
          /\ end.out.kind = "raise"
          /\ lastScrape' = [called |-> TRUE, cls |-> scraper, url |-> urls[idx + 1],
                            env |-> end.env, out |-> end.out]
          /\ IF Catches("Exception", end.out.exc)
             THEN /\ results' = OnScrapeError(results, urls[idx + 1], end.out.exc)
                  /\ idx' = idx + 1
                  /\ batchPc' = batchPc
             ELSE /\ batchPc' = "raised"
                  /\ UNCHANGED <<results, idx>>
    /\ UNCHANGED <<scraper, urls, made>>
    /\ UNCHANGED notScrapeVars

\* the loop is over: return results
BatchReturns ==
    /\ batchPc = "running"
    /\ idx = Len(urls)
    /\ batchPc' = "done"
    /\ UNCHANGED <<scraper, urls, idx, results, lastScrape, made>>
    /\ UNCHANGED notScrapeVars

\* any caller constructs a ScrapingResult directly; scrape_multiple_products
\* is synchronous, so its caller does that outside the batch
ConstructResult ==
    /\ batchPc = "idle"
    /\ \E success \in BOOLEAN, product_info \in ProductInfos, error_message \in Messages :
          made' = [called |-> TRUE,
                   args |-> Fields(success, product_info, error_message, 0),
                   out |-> ScrapingResult(success, product_info, error_message, 0)]
    /\ UNCHANGED <<scraper, urls, idx, results, batchPc, lastScrape>>
    /\ UNCHANGED notScrapeVars

NextScrape ==
    \/ BatchStart
    \/ BatchStepReturns
    \/ BatchStepRaises
    \/ BatchReturns
    \/ ConstructResult

(***************************************************************************)
(* Claims about the scrape boundary.                                        *)
(***************************************************************************)
\* some step of the last scrape_product call failed
SomethingFailed ==
    \/ ~validate_url(lastScrape.cls, lastScrape.url)
    \/ lastScrape.env.fetch.kind # "response"
    \/ lastScrape.env.parse # NoExc
    \/ lastScrape.env.extract # NoExc

\* C6: scrape_product of the RS Components and the Mouser scraper never
\* raises: when URL validation, the request, HTML parsing or the extraction
\* (record validation included) fails, it returns a result with success
\* false and an error message; it reports success only when nothing failed.
C6_NeverRaises ==
    (lastScrape.called /\ lastScrape.cls \in VendorScrapers) =>
        /\ lastScrape.out.kind = "return"
        /\ SomethingFailed =>
              /\ ~lastScrape.out.value.success
              /\ lastScrape.out.value.error_message # NoMessage
              /\ lastScrape.out.value.product_info = NoProduct
        /\ ~SomethingFailed => lastScrape.out.value.success

\* the extraction raised an AttributeError on a valid URL and a failure
\* result carrying its message came back
C6_Witness ==
    /\ lastScrape.called
    /\ lastScrape.cls = "RSComponentsScraper"
    /\ validate_url(lastScrape.cls, lastScrape.url)
    /\ lastScrape.env.extract.cls = "AttributeError"
    /\ lastScrape.out.kind = "return"
    /\ ~lastScrape.out.value.success
    /\ lastScrape.out.value.error_message = lastScrape.env.extract.msg

\* C7: scrape_multiple_products gives exactly one result per input URL, in
\* input order: after i rounds the list holds the results of the first i
\* URLs, the call never ends with an exception, and when it returns the
\* list is as long as urls. A URL the vendor scraper rejects has a failure
\* at its own position.
C7_OnePerUrlInOrder ==
    /\ batchPc \in {"idle", "running", "done"}
    /\ idx <= Len(urls)
    /\ Len(results) = idx
    /\ \A i \in 1..Len(results) :
          /\ results[i].for = urls[i]
          /\ (scraper \in VendorScrapers /\ ~validate_url(scraper, urls[i]))
                => ~results[i].result.success
    /\ batchPc = "done" => Len(results) = Len(urls)

\* scrape_product raised on the first URL, and the second URL was still
\* scraped, successfully
C7_Witness ==
    /\ batchPc = "done"
    /\ Len(urls) = 2
    /\ Len(results) = 2
    /\ ~results[1].result.success
    /\ results[1].result.error_message = "Unexpected error: boom"
    /\ results[2].result.success

\* the two conditions of __post_init__ on a result
WellFormed(r) ==
    /\ r.success => r.product_info # NoProduct
    /\ ~r.success => r.error_message # NoMessage

\* C8: every ScrapingResult that exists has product_info when success is
\* true and an error_message when it is false; constructing one with
\* success and no product_info raises ValueError, and constructing a
\* failure without a message fills in "Unknown error occurred".
C8_ResultInvariant ==
    /\ made.called =>
          /\ made.out.kind = "return" => WellFormed(made.out.value)
          /\ (made.args.success /\ made.args.product_info = NoProduct)
                <=> made.out.kind = "raise"
          /\ made.out.kind = "raise" => made.out.exc.cls = "ValueError"
          /\ (~made.args.success /\ made.args.error_message = NoMessage)
                => made.out.value.error_message = "Unknown error occurred"
          /\ (made.out.kind = "return"
                /\ ~(~made.args.success /\ made.args.error_message = NoMessage))
                => made.out.value = made.args
    /\ \A i \in 1..Len(results) : WellFormed(results[i].result)
    /\ (lastScrape.called /\ lastScrape.out.kind = "return")
          => WellFormed(lastScrape.out.value)

\* a construction with success=True and product_info=None was attempted
\* and raised
C8_Witness ==
    /\ made.called
    /\ made.args.success
    /\ made.args.product_info = NoProduct
    /\ made.out.kind = "raise"

(***************************************************************************)
(* The cookie file. Its content is a sequence of JSON tokens, written by    *)
(* json.dump and read back by json.load. A dict of cookies is a sequence    *)
(* of name/value pairs with distinct names.                                 *)
(***************************************************************************)
Tok(t, k, vt, sv, nv) == [t |-> t, k |-> k, vt |-> vt, sv |-> sv, nv |-> nv]
LBrace == Tok("{", "", "", "", 0)
RBrace == Tok("}", "", "", "", 0)
LBracket == Tok("[", "", "", "", 0)
RBracket == Tok("]", "", "", "", 0)
CookiesOpen == Tok("key{", "cookies", "", "", 0)         \* "cookies": {
StrMember(k, v) == Tok("member", k, "str", v, 0)         \* "k": "v"
NumMember(k, n) == Tok("member", k, "num", "", n)        \* "k": n
NullMember(k) == Tok("member", k, "null", "", 0)         \* "k": null
CookieTok(c) == Tok("cookie", c.name, "str", c.value, 0) \* "name": "value", inside cookies

NoFile == <<Tok("absent", "", "", "", 0)>>   \* self.cookie_file.exists() is False

RECURSIVE CookieToks(_)
CookieToks(cs) ==
    IF cs = <<>> THEN <<>> ELSE <<CookieTok(Head(cs))>> \o CookieToks(Tail(cs))

\* json.dump(cookie_data, f, indent=2): the whole text
Dump(cookie_data) ==
    <<LBrace, StrMember("vendor", cookie_data.vendor),
      StrMember("base_url", cookie_data.base_url), CookiesOpen>>
    \o CookieToks(cookie_data.cookies)
    \o <<RBrace, NumMember("timestamp", cookie_data.timestamp),
         NumMember("expires_at", cookie_data.expires_at), RBrace>>

\* the members of an object, from token i on, up to the closing brace at the
\* end of the text: TRUE when they form a complete object body
RECURSIVE Members(_, _, _)
Members(text, i, inCookies) ==
    IF i > Len(text) THEN FALSE
    ELSE IF inCookies
    THEN CASE text[i].t = "cookie" -> Members(text, i + 1, TRUE)
           [] text[i].t = "}" -> Members(text, i + 1, FALSE)
           [] OTHER -> FALSE
    ELSE CASE text[i].t = "member" -> Members(text, i + 1, FALSE)
           [] text[i].t = "key{" -> Members(text, i + 1, TRUE)
           [] text[i].t = "}" -> i = Len(text)
           [] OTHER -> FALSE

JSONDecodeError == [kind |-> "JSONDecodeError", text |-> <<>>]

\* json.load(f): a list, a dict, or JSONDecodeError
JsonLoad(text) ==
    IF text = <<LBracket, RBracket>> THEN [kind |-> "list", text |-> text]
    ELSE IF Len(text) >= 2 /\ text[1] = LBrace /\ Members(text, 2, FALSE)
    THEN [kind |-> "dict", text |-> text]
    ELSE JSONDecodeError

\* the place of key k among the top-level members of a dict (the last one
\* wins when a key is repeated), 0 when it is not there
RECURSIVE KeyAt(_, _, _, _, _)
KeyAt(text, i, inCookies, k, found) ==
    IF i > Len(text) THEN found
    ELSE IF inCookies
    THEN KeyAt(text, i + 1, text[i].t # "}", k, found)
    ELSE KeyAt(text, i + 1, text[i].t = "key{", k,
               IF text[i].t \in {"member", "key{"} /\ text[i].k = k THEN i ELSE found)

\* the cookies of the object that opens at token i
RECURSIVE CookiesFrom(_, _)
CookiesFrom(text, i) ==
    IF text[i].t = "cookie"
    THEN <<[name |-> text[i].k, value |-> text[i].sv]>> \o CookiesFrom(text, i + 1)
    ELSE <<>>

(***************************************************************************)
(* CookieManager.                                                           *)
(***************************************************************************)
Cookie(name, value) == [name |-> name, value |-> value]
EmptyDict == <<>>                                       \* {}
Persisted == <<Cookie("sid", "old")>>                   \* a set saved earlier
HarvestA == <<Cookie("sid", "a")>>                      \* what driver.get_cookies() gives
HarvestB == <<Cookie("sid", "b"), Cookie("tok", "b")>>
Fallback == <<Cookie("sid", "fb")>>                     \* the caller's fallback_cookies
NoFallback == <<Cookie("<None>", "")>>                  \* fallback_cookies=None

VendorName == "Mouser"
BaseUrl == "https://au.mouser.com"

\* true when fallback_cookies is truthy: not None and not empty
Truthy(d) == d # NoFallback /\ d # EmptyDict

\* (mutation of ExpiresAt: the hours are taken for seconds)
ExpiresAt_Seconds(t, hours) == t + hours

\* time.time() + (self.cookie_expiry_hours * 60 * 60)
ExpiresAt(t, hours) == t + (hours * 60 * 60)

\* the dict _save_cookies_to_file builds
CookieData(cs, t, hours) ==
    [vendor |-> VendorName, base_url |-> BaseUrl, cookies |-> cs,
     timestamp |-> t, expires_at |-> ExpiresAt(t, hours)]

\* if time.time() > expires_at: the stored cookies have expired
Expired(t, expires_at) == t > expires_at

\* except (json.JSONDecodeError, KeyError, TypeError)
LoadHandlerClasses == {"JSONDecodeError", "KeyError", "TypeError"}

\* the try body of _load_cookies_from_file: the exception it raises ("" for
\* none), whether it gives True, and the cookies it stores
LoadBody(text, t) ==
    LET v == JsonLoad(text)
        x == KeyAt(text, 2, FALSE, "expires_at", 0)
        c == KeyAt(text, 2, FALSE, "cookies", 0)
        no(exc) == [exc |-> exc, ok |-> FALSE, stored |-> FALSE, cookies |-> EmptyDict]
    IN  IF text = NoFile THEN no("")
        ELSE IF v.kind = "JSONDecodeError" THEN no("JSONDecodeError")
        ELSE IF v.kind = "list" THEN no("AttributeError")      \* list has no .get
        ELSE IF x # 0 /\ text[x].vt # "num" THEN no("TypeError") \* float > str, float > None
        ELSE IF Expired(t, IF x = 0 THEN 0 ELSE text[x].nv) THEN no("")
        ELSE IF c = 0 THEN no("KeyError")
        ELSE [exc |-> "", ok |-> TRUE, stored |-> TRUE, cookies |-> CookiesFrom(text, c + 1)]

\* _load_cookies_from_file: kind "return" with ok, or kind "raise" with exc
LoadCookiesFromFile(text, t) ==
    LET b == LoadBody(text, t)
    IN  IF b.exc = "" THEN [kind |-> "return", ok |-> b.ok, cookies |-> b.cookies, exc |-> ""]
        ELSE IF b.exc \in LoadHandlerClasses
        THEN [kind |-> "return", ok |-> FALSE, cookies |-> EmptyDict, exc |-> ""]
        ELSE [kind |-> "raise", ok |-> FALSE, cookies |-> EmptyDict, exc |-> b.exc]

\* how writing the file can end: it succeeds, mkdir or open fails (the file
\* is untouched), or the write fails after open(..., "w") has emptied the
\* file and a part of the text is written
SaveEndings == {"ok", "open fails", "write fails midway"}

\* _save_cookies_to_file: the file afterwards and the bool returned
SaveCookiesToFile(cs, t, hours, text, ending) ==
    LET data == CookieData(cs, t, hours)
    IN  CASE ending = "ok" -> [file |-> Dump(data), ok |-> TRUE]
          [] ending = "open fails" -> [file |-> text, ok |-> FALSE]
          [] OTHER -> [file |-> SubSeq(Dump(data), 1, 3), ok |-> FALSE]

\* the steps of a harvest that can fail; a failing consent click is swallowed
\* inside _handle_cookie_consent
HarvestSteps == {"none", "browser start", "navigation", "consent click", "cookie collection"}

HarvestEnvs ==
    {env \in [fails : HarvestSteps, collected : {EmptyDict, HarvestA}, save : SaveEndings] :
        /\ env.fails \in {"browser start", "navigation", "cookie collection"}
              => env.collected = EmptyDict
        /\ env.fails = "consent click" => env.collected # EmptyDict /\ env.save = "ok"
        /\ env.collected = EmptyDict => env.save = "ok"}

NoEnv == [fails |-> "none", collected |-> EmptyDict, save |-> "ok"]

\* (mutation of HarvestHandlerClass: only the page-load timeout is caught)
HarvestHandlerClass_Narrow == "TimeoutException"

\* except Exception as e, in _harvest_fresh_cookies
HarvestHandlerClass == "Exception"

\* the exception a failing step raises inside the try
StepException(step) ==
    CASE step = "browser start" -> Exc("WebDriverException", "chrome not reachable")
      [] step = "navigation" -> Exc("TimeoutException", "page load timed out")
      [] step = "cookie collection" -> Exc("WebDriverException", "session deleted")
      [] OTHER -> NoExc

\* _harvest_fresh_cookies: what it returns or raises, self.cookies and the
\* file afterwards, whether the browser was tried and whether the save worked
HarvestFreshCookies(env, t, hours, text, cur, available) ==
    LET out(kind, ok, cs, file, tried, saved, exc) ==
            [kind |-> kind, ok |-> ok, cookies |-> cs, file |-> file,
             attempted |-> tried, saved |-> saved, exc |-> exc]
        x == StepException(env.fails)
        sv == SaveCookiesToFile(env.collected, t, hours, text, env.save)
    IN  IF ~available THEN out("return", FALSE, cur, text, FALSE, FALSE, NoExc)
        ELSE IF x # NoExc
        THEN IF Catches(HarvestHandlerClass, x)
             THEN out("return", FALSE, cur, text, TRUE, FALSE, NoExc)
             ELSE out("raise", FALSE, cur, text, TRUE, FALSE, x)
        ELSE IF env.collected # EmptyDict
        THEN out("return", TRUE, env.collected, sv.file, TRUE, sv.ok, NoExc)
        ELSE out("return", FALSE, cur, text, TRUE, FALSE, NoExc)

\* get_valid_cookies: what it returns or raises, where the result came
\* from, and self.cookies and the file afterwards
GetValidCookies(fallback, env, t, hours, text, cur, auto, available) ==
    LET out(kind, value, source, cs, file, hv, exc) ==
            [kind |-> kind, value |-> value, source |-> source, cookies |-> cs,
             file |-> file, attempted |-> hv.attempted, harvested |-> hv.ok,
             saved |-> hv.saved, exc |-> exc]
        ld == LoadCookiesFromFile(text, t)
        none == [attempted |-> FALSE, ok |-> FALSE, saved |-> FALSE]
        hv == IF auto /\ available
              THEN HarvestFreshCookies(env, t, hours, text, cur, available)
              ELSE [kind |-> "return", ok |-> FALSE, cookies |-> cur, file |-> text,
                    attempted |-> FALSE, saved |-> FALSE, exc |-> NoExc]
    IN  IF ld.kind = "raise"
        THEN out("raise", EmptyDict, "raise", cur, text, none, Exc(ld.exc, ""))
        ELSE IF ld.ok THEN out("return", ld.cookies, "file", ld.cookies, text, none, NoExc)
        ELSE IF hv.kind = "raise"
        THEN out("raise", EmptyDict, "raise", hv.cookies, hv.file, hv, hv.exc)
        ELSE IF hv.ok THEN out("return", hv.cookies, "harvest", hv.cookies, hv.file, hv, NoExc)
        ELSE IF Truthy(fallback)
        THEN out("return", fallback, "fallback", fallback, hv.file, hv, NoExc)
        ELSE out("return", EmptyDict, "empty", hv.cookies, hv.file, hv, NoExc)

\* (mutation of RefreshGuard: refresh_cookies honours the auto_refresh flag)
RefreshGuard_AutoOnly(auto) == auto

\* refresh_cookies harvests whatever self.auto_refresh says
RefreshGuard(auto) == TRUE

MaxTicks == 3       \* how often time moves on between calls
CookieEpoch == 1000 \* time.time() when the manager is created
TickSteps == {1, 3599}
ExpiryHours == {1}
Fallbacks == {NoFallback, EmptyDict, Fallback}

\* what the vendor's cookie file can hold when the manager is created:
\* nothing, a corrupt or partial text, or a record saved earlier
InitialFiles ==
    {NoFile,
     <<>>,                                                        \* empty file
     SubSeq(Dump(CookieData(Persisted, CookieEpoch, 1)), 1, 5),   \* truncated JSON
     <<LBracket, RBracket>>,                                      \* [] : no object
     <<LBrace, NumMember("expires_at", CookieEpoch + 3600), RBrace>>,  \* no cookies
     Dump(CookieData(Persisted, CookieEpoch - 3599, 1))}          \* expires in 1 second

NoHarvest == [done |-> FALSE, at |-> 0, cookies |-> EmptyDict, saved |-> FALSE]
NoCall == [op |-> "none", fallback |-> NoFallback, env |-> NoEnv, fileBefore |-> NoFile,
           at |-> 0, prior |-> NoHarvest,
           out |-> [kind |-> "return", value |-> EmptyDict, source |-> "", cookies |-> EmptyDict,
                    file |-> NoFile, attempted |-> FALSE, harvested |-> FALSE,
                    saved |-> FALSE, exc |-> NoExc]]
NoWriters == [procs |-> <<>>, last |-> 0]
NothingLoaded == [called |-> FALSE, file |-> NoFile, ok |-> FALSE, cookies |-> EmptyDict]

\* a manager that nobody calls
CookieQuiet ==
    /\ clock = CookieEpoch
    /\ ticks = 0
    /\ cookie_file = NoFile
    /\ cookies = EmptyDict
    /\ auto_refresh = TRUE
    /\ cookie_expiry_hours = 1
    /\ SELENIUM_AVAILABLE = TRUE
    /\ lastCall = NoCall
    /\ lastHarvest = NoHarvest
    /\ writers = NoWriters
    /\ loaded = NothingLoaded

InitCookies ==
    /\ clock = CookieEpoch
    /\ ticks = 0
    /\ cookie_file \in InitialFiles
    /\ cookies = EmptyDict
    /\ auto_refresh \in BOOLEAN
    /\ cookie_expiry_hours \in ExpiryHours
    /\ SELENIUM_AVAILABLE \in BOOLEAN
    /\ lastCall = NoCall
    /\ lastHarvest = NoHarvest
    /\ writers = NoWriters
    /\ loaded = NothingLoaded

\* the history after a call whose harvest gave r
HarvestLogged(r) ==
    IF r.harvested
    THEN [done |-> TRUE, at |-> clock, cookies |-> r.cookies, saved |-> r.saved]
    ELSE lastHarvest

\* a caller asks for cookies
GetValidCookiesCall ==
    /\ \E fallback \in Fallbacks, env \in HarvestEnvs :
          \E r \in {GetValidCookies(fallback, env, clock, cookie_expiry_hours, cookie_file,
                                   cookies, auto_refresh, SELENIUM_AVAILABLE)} :
              /\ ~r.attempted => env = NoEnv
              /\ lastCall' = [op |-> "get", fallback |-> fallback, env |-> env,
                              fileBefore |-> cookie_file, at |-> clock,
                              prior |-> lastHarvest, out |-> r]
              /\ cookies' = r.cookies
              /\ cookie_file' = r.file
              /\ lastHarvest' = HarvestLogged(r)
    /\ UNCHANGED <<clock, ticks, auto_refresh, cookie_expiry_hours, SELENIUM_AVAILABLE,
                   writers, loaded>>
    /\ UNCHANGED notCookieVars

\* refresh_cookies(): return self._harvest_fresh_cookies()
RefreshCookies ==
    /\ \E env \in HarvestEnvs :
          \E h \in {HarvestFreshCookies(env, clock, cookie_expiry_hours, cookie_file, cookies,
                                        SELENIUM_AVAILABLE /\ RefreshGuard(auto_refresh))} :
          LET r == [kind |-> h.kind, value |-> EmptyDict, source |-> "", cookies |-> h.cookies,
                    file |-> h.file, attempted |-> h.attempted, harvested |-> h.ok,
                    saved |-> h.saved, exc |-> h.exc]
          IN  /\ ~r.attempted => env = NoEnv
              /\ lastCall' = [op |-> "refresh", fallback |-> NoFallback, env |-> env,
                              fileBefore |-> cookie_file, at |-> clock,
                              prior |-> lastHarvest, out |-> r]
              /\ cookies' = r.cookies
              /\ cookie_file' = r.file
              /\ lastHarvest' = HarvestLogged(r)
    /\ UNCHANGED <<clock, ticks, auto_refresh, cookie_expiry_hours, SELENIUM_AVAILABLE,
                   writers, loaded>>
    /\ UNCHANGED notCookieVars

\* clear_cookies(): forget the cookies and delete the file
ClearCookies ==
    /\ cookie_file # NoFile \/ cookies # EmptyDict
    /\ cookies' = EmptyDict
    /\ cookie_file' = NoFile
    /\ lastCall' = [NoCall EXCEPT !.op = "clear", !.fileBefore = cookie_file, !.at = clock]
    /\ lastHarvest' = NoHarvest
    /\ UNCHANGED <<clock, ticks, auto_refresh, cookie_expiry_hours, SELENIUM_AVAILABLE,
                   writers, loaded>>
    /\ UNCHANGED notCookieVars

\* time passes between two calls (the last call is then no longer the
\* latest event)
Tick ==
    /\ ticks < MaxTicks
    /\ \E dt \in TickSteps : clock' = clock + dt
    /\ ticks' = ticks + 1
    /\ lastCall' = NoCall
    /\ UNCHANGED <<cookie_file, cookies, auto_refresh, cookie_expiry_hours,
                   SELENIUM_AVAILABLE, lastHarvest, writers, loaded>>
    /\ UNCHANGED notCookieVars

NextCookies ==
    \/ GetValidCookiesCall
    \/ RefreshCookies
    \/ ClearCookies
    \/ Tick

(***************************************************************************)
(* Claims about the cookie manager, checked under SpecCookies. What the     *)
(* file held before a call is read off its text.                            *)
(***************************************************************************)
\* the text is one complete record as _save_cookies_to_file writes it
CompleteRecord(f) ==
    /\ f # NoFile
    /\ Len(f) >= 8
    /\ f[1] = LBrace /\ f[4] = CookiesOpen
    /\ \A i \in 5..(Len(f) - 4) : f[i].t = "cookie"
    /\ f[Len(f) - 3] = RBrace
    /\ f[Len(f) - 1].t = "member" /\ f[Len(f) - 1].k = "expires_at" /\ f[Len(f) - 1].vt = "num"
    /\ f[Len(f)] = RBrace

StoredExpiry(f) == f[Len(f) - 1].nv
StoredCookies(f) == [i \in 1..(Len(f) - 8) |-> Cookie(f[4 + i].k, f[4 + i].sv)]

\* the record a save at time t writes for the cookies cs
RecordText(cs, t) ==
    <<LBrace, StrMember("vendor", VendorName), StrMember("base_url", BaseUrl), CookiesOpen>>
    \o [i \in 1..Len(cs) |-> Tok("cookie", cs[i].name, "str", cs[i].value, 0)]
    \o <<RBrace, NumMember("timestamp", t),
         NumMember("expires_at", t + 3600 * cookie_expiry_hours), RBrace>>

\* the fallback step of the chain: the caller's set as supplied, else {}
FallbackOrEmpty == IF lastCall.fallback = NoFallback THEN EmptyDict ELSE lastCall.fallback

\* the harvest of the last call went through and collected cookies
Collected ==
    /\ lastCall.env.fails \in {"none", "consent click"}
    /\ lastCall.env.collected # EmptyDict

\* C12 (as stated): get_valid_cookies returns the first success of the chain:
\* the persisted set when it is unexpired, without a harvest attempt;
\* otherwise the harvested set when auto-refresh is on, selenium is there and
\* the harvest succeeds; otherwise the fallback as supplied; otherwise {}.
C12_AsStated ==
    lastCall.op = "get" =>
        LET f == lastCall.fileBefore
            r == lastCall.out
        IN  /\ (CompleteRecord(f) /\ lastCall.at < StoredExpiry(f)) =>
                  (r.kind = "return" /\ r.value = StoredCookies(f) /\ ~r.attempted)
            /\ (~CompleteRecord(f) \/ lastCall.at > StoredExpiry(f)) =>
                  /\ r.kind = "return"
                  /\ r.value = IF auto_refresh /\ SELENIUM_AVAILABLE /\ Collected
                               THEN lastCall.env.collected
                               ELSE FallbackOrEmpty

\* C13 (as stated): cookies loaded from the file are returned only if
\* now < expires_at at load time.
C13_AsStated ==
    (lastCall.op = "get" /\ lastCall.out.source = "file") =>
        lastCall.at < StoredExpiry(lastCall.fileBefore)

\* C14 (as stated): a file that is there but holds no complete record (empty,
\* truncated, not an object, no cookies entry) is treated as absent:
\* get_valid_cookies raises nothing and goes on with harvest and fallback.
C14_AsStated ==
    (lastCall.op = "get" /\ lastCall.fileBefore # NoFile
        /\ ~CompleteRecord(lastCall.fileBefore))
    => (lastCall.out.kind = "return" /\ lastCall.out.source # "file")

C29_AsStated ==
    (lastCall.op = "get" /\ lastCall.out.kind = "return") => cookies = lastCall.out.value

\* what holds: a set that came from the file, the harvest or the fallback is
\* the set the manager holds; the final "return {}" returns a new dict and
\* leaves self.cookies as it was
ReturnedIsHeld ==
    (lastCall.op = "get" /\ lastCall.out.kind = "return" /\ lastCall.out.source # "empty")
    => cookies = lastCall.out.value

\* an expired set that get_valid_cookies still holds after returning {}
StaleHeld ==
    /\ lastCall.op = "get" /\ lastCall.out.kind = "return"
    /\ lastCall.out.source = "empty" /\ lastCall.out.value = EmptyDict
    /\ cookies # EmptyDict
    /\ CompleteRecord(lastCall.fileBefore)
    /\ lastCall.at > StoredExpiry(lastCall.fileBefore)
    /\ cookies = StoredCookies(lastCall.fileBefore)

(***************************************************************************)
(* Two processes in _save_cookies_to_file for the same file, and a third    *)
(* that loads it. open(..., "w") empties the file; json.dump's text reaches *)
(* the file in writes of at most ChunkTokens tokens, each at the writer's   *)
(* own position; nothing locks the file.                                    *)
(***************************************************************************)
ChunkTokens == 5     \* what one write() of the buffered file carries
Writers == {1, 2}
Nul == Tok("nul", "", "", "", 0)   \* the filler of a hole left by a write past the end

\* the file after writing chunk at position pos (counted from 0)
WriteAt(text, pos, chunk) ==
    LET old == IF text = NoFile THEN <<>> ELSE text
        n == IF Len(old) > pos + Len(chunk) THEN Len(old) ELSE pos + Len(chunk)
    IN  [i \in 1..n |->
            IF i > pos /\ i <= pos + Len(chunk) THEN chunk[i - pos]
            ELSE IF i <= Len(old) THEN old[i]
            ELSE Nul]

InitCookieFile ==
    /\ clock = CookieEpoch
    /\ ticks = 0
    /\ cookie_file \in {NoFile, Dump(CookieData(Persisted, CookieEpoch - 60, 1))}
    /\ cookies = EmptyDict
    /\ auto_refresh = TRUE
    /\ cookie_expiry_hours = 1
    /\ SELENIUM_AVAILABLE = TRUE
    /\ lastCall = NoCall
    /\ lastHarvest = NoHarvest
    /\ \E a \in {HarvestA, HarvestB}, b \in {HarvestA, HarvestB} :
          /\ a # b
          /\ writers = [procs |-> <<[pc |-> "start", pos |-> 0, set |-> a],
                                    [pc |-> "start", pos |-> 0, set |-> b]>>,
                        last |-> 0]
    /\ loaded = NothingLoaded

\* the text writer w is writing
TextOf(w) == Dump(CookieData(writers.procs[w].set, clock, cookie_expiry_hours))

CookieFileFrame ==
    /\ UNCHANGED <<clock, ticks, cookies, auto_refresh, cookie_expiry_hours,
                   SELENIUM_AVAILABLE, lastCall, lastHarvest>>
    /\ UNCHANGED notCookieVars

\* with open(self.cookie_file, "w") as f: the file is created or emptied
WriterOpens(w) ==
    /\ writers.procs[w].pc = "start"
    /\ cookie_file' = <<>>
    /\ writers' = [writers EXCEPT !.procs[w].pc = "writing"]
    /\ UNCHANGED loaded
    /\ CookieFileFrame

\* json.dump(cookie_data, f, indent=2): the next part of the text is written
WriterWrites(w) ==
    LET me == writers.procs[w]
        chunk == SubSeq(TextOf(w), me.pos + 1,
                        IF me.pos + ChunkTokens < Len(TextOf(w))
                        THEN me.pos + ChunkTokens ELSE Len(TextOf(w)))
    IN  /\ me.pc = "writing"
        /\ me.pos < Len(TextOf(w))
        /\ cookie_file' = WriteAt(cookie_file, me.pos, chunk)
        /\ writers' = [writers EXCEPT !.procs[w].pos = me.pos + Len(chunk), !.last = w]
        /\ UNCHANGED loaded
        /\ CookieFileFrame

\* the with block ends: the file is closed, the save returns True
WriterCloses(w) ==
    /\ writers.procs[w].pc = "writing"
    /\ writers.procs[w].pos = Len(TextOf(w))
    /\ writers' = [writers EXCEPT !.procs[w].pc = "saved"]
    /\ UNCHANGED <<cookie_file, loaded>>
    /\ CookieFileFrame

\* a third process calls _load_cookies_from_file
LoaderLoads ==
    /\ \E ld \in {LoadCookiesFromFile(cookie_file, clock)} :
          loaded' = [called |-> TRUE, file |-> cookie_file,
                     ok |-> ld.kind = "return" /\ ld.ok, cookies |-> ld.cookies]
    /\ UNCHANGED <<cookie_file, writers>>
    /\ CookieFileFrame

NextCookieFile ==
    \/ \E w \in Writers : WriterOpens(w)
    \/ \E w \in Writers : WriterWrites(w)
    \/ \E w \in Writers : WriterCloses(w)
    \/ LoaderLoads

\* C18 (as stated): when both writers have finished, the file holds exactly
\* the complete record of the writer that wrote last; and whatever a loader
\* obtains, during or after the writes, is one writer's complete cookie set
\* (or the set stored before), never a mixture.
C18_AsStated ==
    /\ (\A w \in Writers : writers.procs[w].pc = "saved") =>
          cookie_file = RecordText(writers.procs[writers.last].set, clock)
    /\ (loaded.called /\ loaded.ok) =>
          loaded.cookies \in {writers.procs[w].set : w \in Writers} \cup {Persisted}

\* (reached: both saves returned True and the file holds no JSON text at all)
BothSavedFileCorrupt ==
    /\ \A w \in Writers : writers.procs[w].pc = "saved"
    /\ JsonLoad(cookie_file) = JSONDecodeError

\* (reached: a loader obtained sid from one writer and tok from the other)
MixtureLoaded ==
    /\ loaded.called /\ loaded.ok
    /\ loaded.cookies = <<Cookie("sid", "a"), Cookie("tok", "b")>>

(***************************************************************************)
(* Decimal. A value is c * 10^x with a coefficient c >= 0; NoneD stands for *)
(* None. Arithmetic is exact where the default context (28 digits) makes    *)
(* Python's exact, and raises InvalidOperation where quantize would need    *)
(* more digits than the context has.                                        *)
(***************************************************************************)
Dec(c, x) == [c |-> c, x |-> x]
NoneD == [c |-> 0 - 1, x |-> 0]
NaD == [c |-> 0 - 2, x |-> 0]    \* a value that is no number, such as "abc"
DecimalPrec == 28   \* decimal.getcontext().prec

RECURSIVE Pow10(_)
Pow10(k) == IF k <= 0 THEN 1 ELSE 10 * Pow10(k - 1)

RECURSIVE NumDigits(_)
NumDigits(n) == IF n < 10 THEN 1 ELSE 1 + NumDigits(n \div 10)

\* n / d rounded to an integer, ties to the even neighbour (ROUND_HALF_EVEN)
RoundHalfEven(n, d) ==
    LET q == n \div d
        r == n % d
    IN  IF 2 * r > d THEN q + 1
        ELSE IF 2 * r < d THEN q
        ELSE IF q % 2 = 0 THEN q ELSE q + 1

\* (v * a / b).quantize(Decimal(10) ** -places): the Decimal, or the
\* InvalidOperation raised when the result has more than DecimalPrec digits.
\* A result of more than 9 digits that the context still holds is kept to
\* the digits an integer of the model holds.
Quantize(v, a, b, places) ==
    LET k == v.x + places
        digits == NumDigits((v.c * a * 1000) \div b) + (k - 3)
    IN  IF k > 4
        THEN IF digits > DecimalPrec
             THEN [kind |-> "raise", value |-> NoneD, exc |-> "InvalidOperation"]
             ELSE [kind |-> "return",
                   value |-> Dec(RoundHalfEven(v.c * a * 1000, b), k - 3), exc |-> ""]
        ELSE [kind |-> "return",
              value |-> Dec(IF k >= 0 THEN RoundHalfEven(v.c * a * Pow10(k), b)
                            ELSE RoundHalfEven(v.c * a, b * Pow10(0 - k)),
                            0 - places),
              exc |-> ""]

(***************************************************************************)
(* ProductPricing.                                                          *)
(***************************************************************************)
Absent == 0 - 1             \* package_quantity is not among the keyword arguments
NoneQ == 0 - 2              \* package_quantity=None
StrFive == 0 - 3            \* package_quantity="5"
StrBad == 0 - 4             \* package_quantity="abc"
IsStr(q) == q \in {StrFive, StrBad}

\* the names the module has imported that an except clause can mention:
\* from decimal import Decimal, and the builtins
ImportedExceptions == {"ValueError", "TypeError"}

\* except (ValueError, TypeError, InvalidOperation): evaluating the tuple when
\* an exception arrives raises NameError for a name that was never imported
ExceptPasses(exc) ==
    IF "InvalidOperation" \notin ImportedExceptions THEN "NameError"
    ELSE IF exc \in {"ValueError", "TypeError", "InvalidOperation"} THEN ""
    ELSE exc

\* the fields of a ProductPricing this model follows
PricingFields(package_price, package_quantity, unit_price, unit_price_inc_tax) ==
    [package_price |-> package_price, package_quantity |-> package_quantity,
     unit_price |-> unit_price, unit_price_inc_tax |-> unit_price_inc_tax]

\* Decimal(str(v)): the value, or InvalidOperation for what is no number
DecimalOf(v) == IF v = NaD THEN "InvalidOperation" ELSE ""

\* (mutation of UnitPriceMissing: if not values.get("unit_price"))
UnitPriceMissing_Falsy(values) == values.unit_price = NoneD \/ values.unit_price.c = 0

\* values.get("unit_price") is None
UnitPriceMissing(values) == values.unit_price = NoneD

\* calculate_derived_fields, first part: unit_price. The test of the
\* quantity stands outside the try statement: a str compared with 0 raises
\* TypeError, which no handler of the validator sees.
DerivedUnitPrice(values) ==
    LET package_quantity == IF values.package_quantity = Absent THEN 1
                            ELSE values.package_quantity
        q == Quantize(values.package_price, 1, package_quantity, 4)
    IN  IF ~UnitPriceMissing(values) THEN [exc |-> "", values |-> values]
        ELSE IF values.package_price = NoneD \/ package_quantity \in {NoneQ, 0}
        THEN [exc |-> "", values |-> values]
        ELSE IF IsStr(package_quantity) THEN [exc |-> "TypeError", values |-> values]
        ELSE IF package_quantity <= 0 THEN [exc |-> "", values |-> values]
        ELSE IF DecimalOf(values.package_price) # ""
        THEN [exc |-> ExceptPasses(DecimalOf(values.package_price)), values |-> values]
        ELSE IF q.kind = "return"
        THEN [exc |-> "", values |-> [values EXCEPT !.unit_price = q.value]]
        ELSE [exc |-> ExceptPasses(q.exc), values |-> values]

\* calculate_derived_fields, second part: unit_price_inc_tax (10% GST)
DerivedIncTax(values) ==
    LET q == Quantize(values.unit_price, 11, 10, 2)
    IN  IF values.unit_price_inc_tax # NoneD \/ values.unit_price = NoneD
        THEN [exc |-> "", values |-> values]
        ELSE IF DecimalOf(values.unit_price) # ""
        THEN [exc |-> ExceptPasses(DecimalOf(values.unit_price)), values |-> values]
        ELSE IF q.kind = "return"
        THEN [exc |-> "", values |-> [values EXCEPT !.unit_price_inc_tax = q.value]]
        ELSE [exc |-> ExceptPasses(q.exc), values |-> values]

\* ProductPricing.calculate_derived_fields (model_validator, mode="before")
calculate_derived_fields(values) ==
    LET first == DerivedUnitPrice(values)
    IN  IF first.exc # "" THEN first ELSE DerivedIncTax(first.values)

\* ProductPricing.validate_decimal_fields (field_validator, mode="before"):
\* "" when the value is None or a number; else what leaves the validator,
\* the ValueError it raises or the NameError of its except clause
validate_decimal_fields(v) ==
    IF v = NoneD \/ DecimalOf(v) = "" THEN ""
    ELSE IF ExceptPasses(DecimalOf(v)) = "" THEN "ValueError"
    ELSE ExceptPasses(DecimalOf(v))

\* the monetary fields in the order pydantic validates them
DecimalFieldOrder == <<"package_price", "unit_price", "unit_price_inc_tax">>

\* package_quantity: Optional[int], coerced from a str of digits
CoerceQuantity(q) ==
    IF q = Absent THEN 1 ELSE IF q = StrFive THEN 5 ELSE q

\* the errors pydantic collects into the ValidationError: a field whose
\* validator raised ValueError, a quantity that is no integer
FieldErrors(values) ==
    {[field |-> DecimalFieldOrder[i], value |-> values[DecimalFieldOrder[i]]] :
        i \in {j \in 1..Len(DecimalFieldOrder) :
                 validate_decimal_fields(values[DecimalFieldOrder[j]]) = "ValueError"}}
    \cup (IF values.package_quantity = StrBad
          THEN {[field |-> "package_quantity", value |-> NaD]} ELSE {})

\* an exception other than ValueError leaves the field validation at once
FieldAbort(values) ==
    LET bad == {i \in 1..Len(DecimalFieldOrder) :
                  validate_decimal_fields(values[DecimalFieldOrder[i]])
                      \notin {"", "ValueError"}}
    IN  IF bad = {} THEN ""
        ELSE validate_decimal_fields(
                 values[DecimalFieldOrder[CHOOSE i \in bad : \A j \in bad : i <= j]])

NoErrors == {}

\* ProductPricing(currency=..., **values): the object or the exception. The
\* before-validator of the model runs first, then the fields are validated;
\* the field defaults fill what is left out: package_quantity is 1.
ProductPricing(values) ==
    LET v == calculate_derived_fields(values)
        obj == [v.values EXCEPT !.package_quantity = CoerceQuantity(@)]
    IN  IF v.exc # ""
        THEN [kind |-> "raise", obj |-> values, exc |-> v.exc, errors |-> NoErrors]
        ELSE IF FieldAbort(v.values) # ""
        THEN [kind |-> "raise", obj |-> values, exc |-> FieldAbort(v.values),
              errors |-> NoErrors]
        ELSE IF FieldErrors(v.values) # {}
        THEN [kind |-> "raise", obj |-> values, exc |-> "ValidationError",
              errors |-> FieldErrors(v.values)]
        ELSE [kind |-> "return", obj |-> obj, exc |-> "", errors |-> NoErrors]

\* pricing.<field> = value after construction: no validate_assignment in the
\* model's config, so the value is stored and no validator runs
AssignPackagePrice(obj, value) == [obj EXCEPT !.package_price = value]
AssignPackageQuantity(obj, value) == [obj EXCEPT !.package_quantity = value]

\* ---- inputs
PackagePrices ==
    {NoneD, NaD, Dec(1250, 0 - 2), Dec(3125, 0 - 5), Dec(15, 0 - 5), Dec(10, 0),
     Dec(1, 26)}
PackageQuantities == {Absent, NoneQ, 0, 1, 3, 32, StrFive, StrBad}
UnitPrices == {NoneD, NaD, Dec(0, 0), Dec(15, 0 - 2), Dec(1, 27)}
IncTaxes == {NoneD, NaD, Dec(550, 0 - 2)}

\* what a page shows: the first number of the price element (RS), the first
\* row of the price table (Mouser); NoneD and 0 when there is none
PagePrices == {NoneD, Dec(1250, 0 - 2), Dec(3125, 0 - 5)}
FirstQuantities == {1, 10}
RestEndings == {"ok", "raises"}   \* the other extraction steps and ProductInfo(...)

NotBuilt == [called |-> FALSE, again |-> FALSE,
             values |-> PricingFields(NoneD, Absent, NoneD, NoneD),
             out |-> [kind |-> "", obj |-> PricingFields(NoneD, Absent, NoneD, NoneD),
                      exc |-> "", errors |-> NoErrors]]
NotExtracted == [called |-> FALSE, vendor |-> "", success |-> FALSE,
                 pricing |-> PricingFields(NoneD, Absent, NoneD, NoneD)]

NoBreaks == [called |-> FALSE, v |-> [isdict |-> FALSE, items |-> <<>>],
             out |-> [kind |-> "", dict |-> <<>>, exc |-> ""]]

\* a ProductInfo, by the fields to_inventree_format reads
ProductRecord(description, manufacturer_part_number, detailed_description, primary_image_url, unit_price, minimum_order_quantity, discontinued) ==
    [title |-> "Test Product", vendor_name |-> "Test Vendor",
     vendor_part_number |-> "TV123456",
     specifications |-> [description |-> description,
                         manufacturer_part_number |-> manufacturer_part_number,
                         detailed_description |-> detailed_description],
     media |-> [primary_image_url |-> primary_image_url],
     pricing |-> [unit_price |-> unit_price,
                  minimum_order_quantity |-> minimum_order_quantity],
     availability |-> [discontinued |-> discontinued]]

NoRecord == ProductRecord("<None>", "<None>", "<None>", "<None>", NoneD, 0, FALSE)
NotExported == [called |-> FALSE, record |-> NoRecord, after |-> NoRecord,
                out |-> [kind |-> "", keys |-> <<>>, exc |-> ""]]

PricingQuiet ==
    /\ built = NotBuilt
    /\ extracted = NotExtracted
    /\ breaks = NoBreaks
    /\ exported = NotExported

InitPricing == PricingQuiet

\* ProductPricing(package_price=..., package_quantity=..., unit_price=...,
\* unit_price_inc_tax=...). A behaviour follows one pricing object: this
\* construction, then the constructions again from its fields.
ConstructPricing ==
    /\ ~built.called
    /\ \E package_price \in PackagePrices, package_quantity \in PackageQuantities,
          unit_price \in UnitPrices, unit_price_inc_tax \in IncTaxes :
          \E values \in {PricingFields(package_price, package_quantity, unit_price,
                                       unit_price_inc_tax)} :
             built' = [called |-> TRUE, again |-> FALSE, values |-> values,
                       out |-> ProductPricing(values)]
    /\ UNCHANGED <<extracted, breaks, exported, notPricingVars>>

\* ProductPricing(**fields) with the fields of the pricing constructed last
ConstructAgain ==
    /\ built.called
    /\ built.out.kind = "return"
    /\ built' = [called |-> TRUE, again |-> TRUE, values |-> built.out.obj,
                 out |-> ProductPricing(built.out.obj)]
    /\ UNCHANGED <<extracted, breaks, exported, notPricingVars>>

\* The record of a scrape: ProductInfo(pricing=pricing) keeps the instance it
\* is given, and ScrapingResult(success=True, product_info=...) wraps it.
Extracted(vendor, obj, rest) ==
    [called |-> TRUE, vendor |-> vendor, success |-> rest = "ok",
     pricing |-> IF rest = "ok" THEN obj
                 ELSE PricingFields(NoneD, Absent, NoneD, NoneD)]

\* RSComponentsScraper._extract_pricing, then the rest of scrape_product
ExtractPricingRS ==
    /\ ~extracted.called
    /\ \E price_value \in PagePrices, rest \in RestEndings :
          \E made_pricing \in {ProductPricing(PricingFields(NoneD, Absent, NoneD, NoneD)).obj} :
             extracted' = Extracted("RS Components",
                                    IF price_value # NoneD
                                    THEN AssignPackagePrice(made_pricing, price_value)
                                    ELSE made_pricing,
                                    rest)
    /\ UNCHANGED <<built, breaks, exported, notPricingVars>>

\* MouserScraper._extract_pricing, then the rest of scrape_product
ExtractPricingMouser ==
    /\ ~extracted.called
    /\ \E price_value \in PagePrices, first_qty \in FirstQuantities, rest \in RestEndings :
          \E made_pricing \in {ProductPricing(PricingFields(NoneD, Absent, NoneD, NoneD)).obj} :
             extracted' = Extracted("Mouser",
                                    IF price_value # NoneD
                                    THEN AssignPackageQuantity(
                                             AssignPackagePrice(made_pricing, price_value),
                                             first_qty)
                                    ELSE made_pricing,
                                    rest)
    /\ UNCHANGED <<built, breaks, exported, notPricingVars>>

NextPricing ==
    \/ ConstructPricing
    \/ ConstructAgain
    \/ ExtractPricingRS
    \/ ExtractPricingMouser

(***************************************************************************)
(* Claims about ProductPricing.                                             *)
(***************************************************************************)
\* unit_price is package_price / package_quantity rounded to 4 decimals: the
\* nearest multiple of 0.0001, the even one of two equally near. Stated
\* without the operators of the model: with u the unit price in 0.0001s,
\* |u * d - n| * 2 <= d for the fraction n / d of the quotient in 0.0001s.
IsRounded4(unit_price, package_price, package_quantity) ==
    LET k == package_price.x + 4
        n == IF k >= 0 THEN package_price.c * Pow10(k) ELSE package_price.c
        d == IF k >= 0 THEN package_quantity ELSE package_quantity * Pow10(0 - k)
        u == unit_price.c
        diff == IF u * d >= n THEN u * d - n ELSE n - u * d
    IN  /\ unit_price # NoneD
        /\ unit_price.x = 0 - 4
        /\ k <= 4
        /\ 2 * diff <= d
        /\ (2 * diff = d => u % 2 = 0)

\* C19 (as stated): every record of a successful result that has a package
\* price and a positive package quantity has the unit price, equal to the
\* quotient rounded to 4 decimals, and the tax-inclusive unit price, also
\* when the scraper filled the price after creating the pricing object.
C19_AsStated ==
    (extracted.called /\ extracted.success
       /\ extracted.pricing.package_price # NoneD
       /\ extracted.pricing.package_quantity > 0)
    => /\ IsRounded4(extracted.pricing.unit_price, extracted.pricing.package_price,
                     extracted.pricing.package_quantity)
       /\ extracted.pricing.unit_price_inc_tax # NoneD

\* C20 (as stated): a construction with a positive package price, a positive
\* package quantity and no unit price returns a pricing whose unit price is
\* the quotient rounded to 4 decimals.
C20_AsStated ==
    (built.called /\ built.values.package_price # NoneD
       /\ built.values.package_price.c > 0
       /\ built.values.package_quantity > 0
       /\ built.values.unit_price = NoneD)
    => /\ built.out.kind = "return"
       /\ IsRounded4(built.out.obj.unit_price, built.values.package_price,
                     built.values.package_quantity)

\* Where the quotient fits the 28 digits of the context the construction
\* returns, and the unit price is the rounded quotient.
PricingInRange ==
    (built.called /\ built.values.package_price # NoneD
       /\ built.values.package_price.c > 0
       /\ built.values.package_price.x <= 0
       /\ built.values.package_quantity > 0
       /\ built.values.unit_price = NoneD
       /\ built.values.unit_price_inc_tax # NaD)
    => /\ built.out.kind = "return"
       /\ IsRounded4(built.out.obj.unit_price, built.values.package_price,
                     built.values.package_quantity)

\* inc_tax is unit_price * 1.1 rounded to 2 decimals, ties to the even
\* neighbour: with t the tax-inclusive price in 0.01s and n / d the product in
\* 0.01s, |t * d - n| * 2 <= d
IsRoundedTax(inc_tax, unit_price) ==
    LET k == unit_price.x + 2
        n == IF k >= 0 THEN 11 * unit_price.c * Pow10(k) ELSE 11 * unit_price.c
        d == IF k >= 0 THEN 10 ELSE 10 * Pow10(0 - k)
        t == inc_tax.c
        diff == IF t * d >= n THEN t * d - n ELSE n - t * d
    IN  /\ inc_tax \notin {NoneD, NaD}
        /\ inc_tax.x = 0 - 2
        /\ k <= 4
        /\ 2 * diff <= d
        /\ (2 * diff = d => t % 2 = 0)

\* a number was given for the field, whatever its size
IsNumber(v) == v \notin {NoneD, NaD}

\* only package_price and package_quantity are supplied, both numbers
OnlyPackageSupplied ==
    /\ built.called /\ ~built.again
    /\ IsNumber(built.values.package_price)
    /\ built.values.package_quantity > 0
    /\ built.values.unit_price = NoneD
    /\ built.values.unit_price_inc_tax = NoneD

\* unit_price is supplied as a number and unit_price_inc_tax is absent; what
\* else is supplied is valid
UnitPriceSupplied ==
    /\ built.called /\ ~built.again
    /\ IsNumber(built.values.unit_price)
    /\ built.values.unit_price_inc_tax = NoneD
    /\ built.values.package_price # NaD
    /\ ~IsStr(built.values.package_quantity)

\* C21 (as stated): when only the package price and quantity are supplied,
\* the tax-inclusive unit price is the unit price derived in the first step
\* times 1.1 rounded to 2 decimals; when the unit price is supplied and the
\* tax-inclusive one is absent, it is computed the same way from the supplied
\* unit price.
C21_AsStated ==
    /\ OnlyPackageSupplied
       => /\ built.out.kind = "return"
          /\ IsRounded4(built.out.obj.unit_price, built.values.package_price,
                        built.values.package_quantity)
          /\ IsRoundedTax(built.out.obj.unit_price_inc_tax, built.out.obj.unit_price)
    /\ UnitPriceSupplied
       => /\ built.out.kind = "return"
          /\ built.out.obj.unit_price = built.values.unit_price
          /\ IsRoundedTax(built.out.obj.unit_price_inc_tax, built.values.unit_price)

\* Where the products fit the 28 digits of the context, the order and the
\* rounding of the two steps are as C21 has them.
DerivationInRange ==
    /\ (OnlyPackageSupplied /\ built.values.package_price.x <= 0)
       => /\ built.out.kind = "return"
          /\ IsRounded4(built.out.obj.unit_price, built.values.package_price,
                        built.values.package_quantity)
          /\ IsRoundedTax(built.out.obj.unit_price_inc_tax, built.out.obj.unit_price)
    /\ (UnitPriceSupplied /\ built.values.unit_price.x <= 0)
       => /\ built.out.kind = "return"
          /\ built.out.obj.unit_price = built.values.unit_price
          /\ IsRoundedTax(built.out.obj.unit_price_inc_tax, built.values.unit_price)

\* C22: the derivation is idempotent and never overwrites what was supplied.
\* A pricing constructed again from the fields of a complete pricing has the
\* same unit price and tax-inclusive unit price, and a unit price that was
\* supplied, 0 included, is the unit price of the constructed pricing whatever
\* the package price and quantity are.
C22_KeepsSupplied ==
    /\ (built.called /\ built.again
          /\ IsNumber(built.values.unit_price)
          /\ IsNumber(built.values.unit_price_inc_tax))
       => /\ built.out.kind = "return"
          /\ built.out.obj.unit_price = built.values.unit_price
          /\ built.out.obj.unit_price_inc_tax = built.values.unit_price_inc_tax
    /\ (built.called /\ IsNumber(built.values.unit_price) /\ built.out.kind = "return")
       => built.out.obj.unit_price = built.values.unit_price
    /\ (built.called /\ IsNumber(built.values.unit_price_inc_tax)
          /\ built.out.kind = "return")
       => built.out.obj.unit_price_inc_tax = built.values.unit_price_inc_tax

\* a pricing with a package price of 12.50 for 1 and a supplied unit price
\* of 0 was constructed and then constructed again from its fields
C22_Witness ==
    /\ built.called /\ built.again
    /\ built.values.package_price = Dec(1250, 0 - 2)
    /\ built.values.package_quantity = 1
    /\ built.values.unit_price = Dec(0, 0)
    /\ built.out.kind = "return"
    /\ built.out.obj.unit_price = Dec(0, 0)

\* C23 (as stated): a derivation step whose inputs are missing or no numbers
\* is skipped silently: with the unit price absent and the package price or
\* quantity missing or no number, and with the tax-inclusive price absent and
\* the unit price no number, the derivation raises nothing and leaves the
\* derived field absent.
C23_AsStated ==
    /\ (built.called /\ ~built.again
          /\ built.values.unit_price = NoneD
          /\ (built.values.package_price \in {NoneD, NaD}
                \/ built.values.package_quantity \in {NoneQ, StrBad}))
       => /\ DerivedUnitPrice(built.values).exc = ""
          /\ DerivedUnitPrice(built.values).values.unit_price = NoneD
    /\ (built.called /\ ~built.again
          /\ built.values.unit_price_inc_tax = NoneD
          /\ built.values.unit_price = NaD)
       => /\ DerivedIncTax(built.values).exc = ""
          /\ DerivedIncTax(built.values).values.unit_price_inc_tax = NoneD

\* The part of C23 about missing inputs: a step whose input is None (or a
\* quantity of 0) raises nothing and derives nothing.
MissingInputsSkipped ==
    /\ (built.called /\ ~built.again
          /\ built.values.unit_price = NoneD
          /\ (built.values.package_price = NoneD
                \/ built.values.package_quantity \in {NoneQ, 0}))
       => /\ DerivedUnitPrice(built.values).exc = ""
          /\ DerivedUnitPrice(built.values).values.unit_price = NoneD
    /\ (built.called /\ ~built.again
          /\ built.values.unit_price_inc_tax = NoneD
          /\ built.values.unit_price = NoneD
          /\ DerivedUnitPrice(built.values).exc = ""
          /\ DerivedUnitPrice(built.values).values.unit_price = NoneD)
       => /\ calculate_derived_fields(built.values).exc = ""
          /\ calculate_derived_fields(built.values).values.unit_price_inc_tax = NoneD

\* C24 (as stated): a construction given a monetary value that cannot be
\* parsed as a decimal fails with a ValidationError that names the field and
\* the value; no pricing is produced and no other kind of error is raised.
C24_AsStated ==
    (built.called /\ ~built.again
       /\ NaD \in {built.values.package_price, built.values.unit_price,
                   built.values.unit_price_inc_tax})
    => /\ built.out.kind = "raise"
       /\ built.out.exc = "ValidationError"
       /\ \A f \in {"package_price", "unit_price", "unit_price_inc_tax"} :
              built.values[f] = NaD
              => [field |-> f, value |-> NaD] \in built.out.errors

\* What holds of such a construction: it produces no pricing.
UnparsedNeverConstructs ==
    (built.called
       /\ NaD \in {built.values.package_price, built.values.unit_price,
                   built.values.unit_price_inc_tax})
    => built.out.kind = "raise"

(***************************************************************************)
(* ProductPricing.validate_quantity_breaks. A dict is the sequence of its   *)
(* items in insertion order; keys and values are what the caller gave: an   *)
(* int, a str (a sequence of characters) or None.                           *)
(***************************************************************************)
IntKey(n) == [t |-> "int", n |-> n, s |-> <<>>]
StrKey(str) == [t |-> "str", n |-> 0, s |-> str]
StrValue(str) == [t |-> "str", s |-> str]
NoneValue == [t |-> "None", s |-> <<>>]

DigitChars == <<"0", "1", "2", "3", "4", "5", "6", "7", "8", "9">>
DigitValue(ch) == (CHOOSE i \in DOMAIN DigitChars : DigitChars[i] = ch) - 1
AllDigits(str) == Len(str) > 0 /\ \A i \in 1..Len(str) : str[i] \in Digits

RECURSIVE DigitsValue(_)
DigitsValue(str) ==
    IF str = <<>> THEN 0
    ELSE 10 * DigitsValue(SubSeq(str, 1, Len(str) - 1)) + DigitValue(str[Len(str)])

Signed(str) == str # <<>> /\ str[1] \in {"-", "+"}
Unsigned(str) == IF Signed(str) THEN Tail(str) ELSE str

\* int(k) if not isinstance(k, int) else k: the integer, or ValueError
IntOf(k) ==
    IF k.t = "int" THEN [exc |-> "", n |-> k.n]
    ELSE IF AllDigits(Unsigned(k.s))
    THEN [exc |-> "",
          n |-> IF k.s[1] = "-" THEN 0 - DigitsValue(Unsigned(k.s))
                ELSE DigitsValue(Unsigned(k.s))]
    ELSE [exc |-> "ValueError", n |-> 0]

\* a Decimal with its sign: (-1)^neg * c * 10^x
SignedDec(neg, c, x) == [neg |-> neg, c |-> c, x |-> x]
NoPrice == [neg |-> FALSE, c |-> 0 - 1, x |-> 0]     \* None

PointAt(str) == CHOOSE i \in 1..Len(str) : str[i] = "."

\* Decimal(str(val)) if val is not None else None: digits with at most one
\* point in them and a sign before them, or InvalidOperation
PriceOf(val) ==
    LET body == Unsigned(val.s)
        hasPoint == \E i \in 1..Len(body) : body[i] = "."
        whole == IF hasPoint THEN SubSeq(body, 1, PointAt(body) - 1) ELSE body
        frac == IF hasPoint THEN SubSeq(body, PointAt(body) + 1, Len(body)) ELSE <<>>
    IN  IF val.t = "None" THEN [exc |-> "", price |-> NoPrice]
        ELSE IF AllDigits(whole \o frac)
        THEN [exc |-> "",
              price |-> SignedDec(Signed(val.s) /\ val.s[1] = "-",
                                  DigitsValue(whole \o frac), 0 - Len(frac))]
        ELSE [exc |-> "InvalidOperation", price |-> NoPrice]

\* validated_breaks[quantity] = price
BreakSet(d, quantity, price) ==
    IF \E i \in 1..Len(d) : d[i].k = quantity
    THEN [i \in 1..Len(d) |-> IF d[i].k = quantity THEN [k |-> quantity, v |-> price]
                              ELSE d[i]]
    ELSE Append(d, [k |-> quantity, v |-> price])

\* if quantity > 0 and price is not None
BreakKept(quantity, price) == quantity > 0 /\ price # NoPrice

\* the loop of validate_quantity_breaks from item i on, validated_breaks = acc
RECURSIVE BreaksFrom(_, _, _)
BreaksFrom(items, i, acc) ==
    IF i > Len(items) THEN [kind |-> "return", dict |-> acc, exc |-> ""]
    ELSE LET key == IntOf(items[i].k)
             val == PriceOf(items[i].v)
             raised == IF key.exc # "" THEN key.exc ELSE val.exc
         IN  IF raised # ""
             THEN IF ExceptPasses(raised) = "" THEN BreaksFrom(items, i + 1, acc)
                  ELSE [kind |-> "raise", dict |-> <<>>, exc |-> ExceptPasses(raised)]
             ELSE IF BreakKept(key.n, val.price)
             THEN BreaksFrom(items, i + 1, BreakSet(acc, key.n, val.price))
             ELSE BreaksFrom(items, i + 1, acc)

\* ProductPricing.validate_quantity_breaks (field_validator, mode="before")
validate_quantity_breaks(v) ==
    IF ~v.isdict THEN [kind |-> "return", dict |-> <<>>, exc |-> ""]
    ELSE BreaksFrom(v.items, 1, <<>>)

\* ---- inputs
MaxBreaks == 3
BreakItems ==
    {[k |-> StrKey(<<"1", "0">>), v |-> StrValue(<<"1", ".", "5", "0">>)],
     [k |-> StrKey(<<"a", "b", "c">>), v |-> StrValue(<<"2", ".", "0", "0">>)],
     [k |-> StrKey(<<"-", "5">>), v |-> StrValue(<<"3", ".", "0", "0">>)],
     [k |-> IntKey(10), v |-> StrValue(<<"2", ".", "0", "0">>)],
     [k |-> IntKey(100), v |-> StrValue(<<"0">>)],
     [k |-> IntKey(100), v |-> StrValue(<<"-", "1", ".", "5", "0">>)],
     [k |-> IntKey(100), v |-> StrValue(<<"a", "b", "c">>)],
     [k |-> IntKey(100), v |-> NoneValue]}

\* the dicts of at most n items of S: no key twice
DictsUpTo(S, n) ==
    {d \in SeqsUpTo(S, n) : \A i, j \in 1..Len(d) : i # j => d[i].k # d[j].k}

BreakInputs ==
    {[isdict |-> TRUE, items |-> d] : d \in DictsUpTo(BreakItems, MaxBreaks)}
    \cup {[isdict |-> FALSE, items |-> <<>>]}

\* ProductPricing(currency=..., quantity_breaks=v): the field validator runs.
\* A behaviour follows one call.
ValidateBreaks ==
    /\ ~breaks.called
    /\ \E v \in BreakInputs :
          breaks' = [called |-> TRUE, v |-> v, out |-> validate_quantity_breaks(v)]
    /\ UNCHANGED <<built, extracted, exported, notPricingVars>>

NextBreaks == ValidateBreaks

(***************************************************************************)
(* Claims about quantity_breaks.                                            *)
(***************************************************************************)
\* the item's key coerces to a positive integer and its value to a positive
\* decimal
GoodItem(item) ==
    /\ IntOf(item.k).exc = "" /\ IntOf(item.k).n > 0
    /\ PriceOf(item.v).exc = "" /\ PriceOf(item.v).price # NoPrice
    /\ ~PriceOf(item.v).price.neg /\ PriceOf(item.v).price.c > 0

\* the pairs of the result: for each key the value of the last good item
\* that coerces to it
ExpectedBreaks(items) ==
    {[k |-> IntOf(items[i].k).n, v |-> PriceOf(items[i].v).price] :
        i \in {j \in 1..Len(items) :
                 /\ GoodItem(items[j])
                 /\ \A h \in (j + 1)..Len(items) :
                       GoodItem(items[h]) => IntOf(items[h].k).n # IntOf(items[j].k).n}}

PairsOf(d) == {d[i] : i \in 1..Len(d)}

\* C25 (as stated): for every input map the validator returns, without any
\* error, exactly the entries whose key coerces to a positive integer and
\* whose value coerces to a positive decimal; {"10": "1.50", "abc": "2.00",
\* "-5": "3.00"} gives {10: 1.50}.
C25_AsStated ==
    (breaks.called /\ breaks.v.isdict)
    => /\ breaks.out.kind = "return"
       /\ PairsOf(breaks.out.dict) = ExpectedBreaks(breaks.v.items)

\* What holds of the validator: a map whose keys and values all parse gives
\* the entries with a positive key, whatever the sign of the value.
BreaksWhereAllParse ==
    (breaks.called /\ breaks.v.isdict
       /\ \A i \in 1..Len(breaks.v.items) :
             IntOf(breaks.v.items[i].k).exc = "" /\ PriceOf(breaks.v.items[i].v).exc = "")
    => /\ breaks.out.kind = "return"
       /\ \A i \in 1..Len(breaks.v.items) :
             (\E j \in 1..Len(breaks.out.dict) :
                 breaks.out.dict[j].k = IntOf(breaks.v.items[i].k).n)
             <=> (IntOf(breaks.v.items[i].k).n > 0
                    /\ PriceOf(breaks.v.items[i].v).price # NoPrice)

(***************************************************************************)
(* ProductInfo.to_inventree_format. The dict display is evaluated entry by  *)
(* entry; each entry reads attributes of the record or of its parts.        *)
(***************************************************************************)
\* the fields the model classes declare (a pydantic model has no other
\* attribute: extra fields are ignored by ProductPricing)
DeclaredFields ==
    [self |-> {"vendor_name", "vendor_part_number", "product_url", "title",
               "specifications", "pricing", "availability", "media",
               "vendor_specific_data", "scraped_at", "scraper_version"},
     specifications |-> {"manufacturer", "manufacturer_part_number", "category",
                         "subcategory", "description", "detailed_description",
                         "technical_specs", "datasheet_url",
                         "compliance_certifications"},
     pricing |-> {"currency", "package_price", "package_price_inc_tax",
                  "package_quantity", "package_unit", "unit_price",
                  "unit_price_inc_tax", "minimum_order_quantity", "order_multiple",
                  "quantity_breaks"},
     availability |-> {"in_stock", "stock_quantity", "lead_time_days",
                       "lead_time_description", "discontinued", "lifecycle_status"},
     media |-> {"primary_image_url", "additional_images", "video_urls"}]

Entry(key, reads) == [key |-> key, reads |-> reads]

\* the entries of the dict display, in order, with the attributes each reads
InvenTreeEntries ==
    <<Entry("name", {<<"self", "title">>}),
      Entry("description", {<<"specifications", "description">>, <<"self", "title">>}),
      Entry("IPN", {<<"specifications", "manufacturer_part_number">>,
                    <<"self", "vendor_part_number">>}),
      Entry("category_name", {<<"specifications", "category">>}),
      Entry("link", {<<"self", "product_url">>}),
      Entry("remote_image", {<<"media", "primary_image_url">>}),
      Entry("notes", {<<"specifications", "detailed_description">>,
                      <<"self", "vendor_name">>, <<"self", "scraped_at">>}),
      Entry("default_supplier", {<<"self", "vendor_name">>}),
      Entry("base_cost", {<<"pricing", "unit_price">>}),
      Entry("units", {<<"pricing", "packaging">>}),
      Entry("in_stock", {<<"availability", "in_stock">>}),
      Entry("minimum_stock", {<<"pricing", "minimum_order_quantity">>}),
      Entry("stock", {<<"availability", "stock_quantity">>}),
      Entry("purchaseable", {}),
      Entry("active", {<<"availability", "discontinued">>}),
      Entry("component", {}),
      Entry("trackable", {}),
      Entry("keywords", {<<"self", "vendor_name">>, <<"specifications", "manufacturer">>}),
      Entry("creation_date", {<<"self", "scraped_at">>})>>

\* the entry reads an attribute its object does not have
ReadFails(x) == \E r \in x.reads : r[2] \notin DeclaredFields[r[1]]

\* ProductInfo.to_inventree_format: the keys of the dict, or the
\* AttributeError of the first entry that reads a missing attribute
to_inventree_format(record) ==
    IF \E i \in 1..Len(InvenTreeEntries) : ReadFails(InvenTreeEntries[i])
    THEN [kind |-> "raise", keys |-> <<>>, exc |-> "AttributeError"]
    ELSE [kind |-> "return",
          keys |-> [i \in 1..Len(InvenTreeEntries) |-> InvenTreeEntries[i].key],
          exc |-> ""]

\* ---- inputs
Texts(t) == {"<None>", t}
ProductRecords ==
    {ProductRecord(description, manufacturer_part_number, detailed_description,
                   primary_image_url, unit_price, minimum_order_quantity, discontinued) :
        description \in Texts("Test description"),
        manufacturer_part_number \in Texts("TEST123"),
        detailed_description \in Texts("details"),
        primary_image_url \in Texts("https://example.com/image.jpg"),
        unit_price \in {NoneD, Dec(0, 0), Dec(150, 0 - 2)},
        minimum_order_quantity \in {0, 10},
        discontinued \in BOOLEAN}

\* product.to_inventree_format(): the method assigns nothing
ToInvenTreeFormat ==
    /\ ~exported.called
    /\ \E record \in ProductRecords :
          exported' = [called |-> TRUE, record |-> record, after |-> record,
                       out |-> to_inventree_format(record)]
    /\ UNCHANGED <<built, extracted, breaks, notPricingVars>>

NextExport == ToInvenTreeFormat

\* the fields of the flat inventory record
InventoryFields ==
    {"name", "description", "IPN", "category_name", "link", "remote_image", "notes",
     "default_supplier", "base_cost", "units", "in_stock", "minimum_stock",
     "purchaseable", "active", "component", "trackable", "keywords", "creation_date"}

\* C26 (as stated): for every valid record to_inventree_format returns,
\* without raising, a flat record whose fields are exactly the 18 inventory
\* fields, and leaves the record unchanged.
C26_AsStated ==
    exported.called
    => /\ exported.out.kind = "return"
       /\ {exported.out.keys[i] : i \in 1..Len(exported.out.keys)} = InventoryFields
       /\ exported.after = exported.record

\* What holds of the call: the record is left as it was.
ExportLeavesRecord == exported.called => exported.after = exported.record

(***************************************************************************)
(* Dispatch by URL: the registry as register_all_scrapers fills it when the *)
(* scrapers package is imported, and one pass of the loop body of the       *)
(* command line's scrape command: get_scraper(url), then                    *)
(* scraper.scrape_product(url).                                             *)
(***************************************************************************)
V_rs_components == <<"r", "s", "_", "c", "o", "m", "p", "o", "n", "e", "n", "t", "s">>

RsSub(cc) == cc \o <<".">> \o D_rs_online_com

\* domains=[...] of register_all_scrapers, in the order written
RegisteredRsDomains ==
    <<RsSub(<<"u", "k">>), D_rs_online_com, RsSub(<<"a", "u">>), RsSub(<<"s", "g">>),
      RsSub(<<"e", "x", "p", "o", "r", "t">>), RsSub(<<"i", "e">>), RsSub(<<"f", "r">>),
      RsSub(<<"d", "e">>)>>

\* register_all_scrapers, run once when the package is imported
RegisterAllScrapers ==
    /\ registrations = 0
    /\ registrations' = 1
    /\ scrapers' = [k \in DOMAIN scrapers \cup {Lower(V_rs_components)} |->
                       IF k = Lower(V_rs_components) THEN "RSComponentsScraper"
                       ELSE scrapers[k]]
    /\ domain_mapping' =
           RegisterDomains(domain_mapping, RegisteredRsDomains, Lower(V_rs_components))
    /\ firstSeen' = Logged(firstSeen, RegisteredRsDomains, Lower(V_rs_components))
    /\ resolved' = NotResolved
    /\ UNCHANGED notRegistryVars

Http == <<"h", "t", "t", "p", ":", "/", "/">>

\* get_scraper: a string that starts with a scheme is resolved as a URL, any
\* other as a vendor name
get_scraper(vendor_name_or_url, ctorOk) ==
    IF StartsWith(vendor_name_or_url, Http) \/ StartsWith(vendor_name_or_url, Https)
    THEN get_scraper_by_url(vendor_name_or_url, ctorOk)
    ELSE get_scraper_by_vendor(vendor_name_or_url, ctorOk)

\* the hosts the command is given: the registered ones, as written, in capitals
\* and behind "www."; a regional site that is not registered; hosts that only
\* share an ending with a registered domain; an unrelated host; no host
DispatchHosts ==
    {RegisteredRsDomains[i] : i \in DOMAIN RegisteredRsDomains}
    \cup {<<"w", "w", "w", ".">> \o D_rs_online_com,
          <<"W", "W", "W", ".", "A", "U", ".", "R", "S", "-", "O", "N", "L", "I", "N", "E",
            ".", "C", "O", "M">>,
          RsSub(<<"j", "p">>),
          <<"n", "o", "t">> \o D_rs_online_com,
          <<"o", "n", "l", "i", "n", "e", ".", "c", "o", "m">>,
          <<"c", "o", "m">>,
          D_unknown_net,
          <<>>}

DispatchUrls ==
    {scheme \o host \o PathX : scheme \in {Http, Https}, host \in DispatchHosts}
    \cup {V_rs_components, U_bad_bracket}

\* for url in urls: scraper = get_scraper(url, ...); if not scraper: continue;
\* result = scraper.scrape_product(url)
DispatchUrl ==
    \E url \in DispatchUrls, ctorOk \in BOOLEAN, env \in Envs :
        LET found == get_scraper(url, ctorOk)
        IN  /\ registrations > 0   \* the command line imports the package first
            /\ ~resolved.called    \* one URL is followed; its outcome does not
                                   \* depend on the URLs before it
            /\ resolved' = [called |-> TRUE, url |-> url, ctorOk |-> ctorOk, result |-> found]
            /\ lastScrape' =
                   IF found = NoInstance THEN NotScraped
                   ELSE [called |-> TRUE, cls |-> found.cls, url |-> url, env |-> env,
                         out |-> scrape_product(found.cls, url, env)]
            /\ UNCHANGED <<scrapers, domain_mapping, registrations, firstSeen>>
            /\ UNCHANGED <<scraper, urls, idx, results, batchPc, made>>
            /\ UNCHANGED <<fetchVars, cookieVars, pricingVars>>

NextDispatch ==
    \/ RegisterAllScrapers
    \/ DispatchUrl

(***************************************************************************)
(* Claims about dispatch by URL, checked under SpecDispatch.                *)
(***************************************************************************)
\* the registry resolved the last URL, as a URL, to an RS Components scraper
ResolvedToRs ==
    /\ resolved.called
    /\ StartsWith(resolved.url, Http) \/ StartsWith(resolved.url, Https)
    /\ resolved.result # NoInstance
    /\ resolved.result.cls = "RSComponentsScraper"

NotOurUrl == "URL does not belong to RS Components"

\* C27: every URL the registry of register_all_scrapers resolves to an RS
\* Components scraper is accepted by that scraper's validate_url, so the
\* scrape dispatched for it never fails with "URL does not belong to ...".
C27_AsStated ==
    ResolvedToRs =>
        /\ validate_url(resolved.result.cls, resolved.url)
        /\ lastScrape.called /\ lastScrape.url = resolved.url
        /\ ~(lastScrape.out.kind = "return"
             /\ lastScrape.out.value.error_message = NotOurUrl)

\* what the two do agree on: a URL whose host is one of the registered
\* domains, a leading "www." and capitals aside, is resolved and accepted
ListedHostsAgree ==
    (resolved.called /\ ~UrlParseRaises(resolved.url) /\ resolved.ctorOk
     /\ (StartsWith(resolved.url, Http) \/ StartsWith(resolved.url, Https))
     /\ UrlDomain(resolved.url) \in rs_domains)
    => /\ ResolvedToRs
       /\ validate_url(resolved.result.cls, resolved.url)

\* and every other URL that is resolved is turned away by the scraper
UnlistedHostsRefused ==
    (ResolvedToRs /\ UrlDomain(resolved.url) \notin rs_domains)
    => /\ lastScrape.out.kind = "return"
       /\ ~lastScrape.out.value.success
       /\ lastScrape.out.value.error_message = NotOurUrl

(***************************************************************************)
(* The scrape command of the command line: for each URL a scraper is asked  *)
(* of get_scraper with delay_between_requests=delay, so each URL is scraped *)
(* by an instance of its own, whose _last_request_time starts at 0 and      *)
(* whose max_retries is the default. The request of scrape_product runs as  *)
(* the steps of _make_request above. prevGetAt and lastGetAt go on across   *)
(* the instances: they are the times of the GETs the vendor receives.       *)
(***************************************************************************)
DefaultMaxRetries == 3   \* max_retries: int = 3

U_rs_jp == Https \o RsSub(<<"j", "p">>) \o PathX      \* https://jp.rs-online.com/x

CliUrls == {U_rs_au, U_rs_jp}

\* the command is run with --delay delay_between_requests
InitCli ==
    /\ InitFetch
    /\ max_retries = DefaultMaxRetries
    /\ InitRegistry

\* scrape(urls, output, format, delay): all_products = []
CliScrape ==
    /\ batchPc = "idle"
    /\ registrations > 0   \* the module imports the scrapers package first
    /\ urls' \in SeqsUpTo(CliUrls, MaxUrls) \ {<<>>}   \* required=True
    /\ idx' = 0
    /\ batchPc' = "running"
    /\ UNCHANGED <<scraper, results, lastScrape, made>>
    /\ UNCHANGED <<fetchVars, registryVars, cookieVars, pricingVars>>

\* the URL the loop is at
CliUrl == urls[idx + 1]

\* scraper = get_scraper(url, delay_between_requests=delay) gives None:
\* "No scraper available", continue
CliNoScraper ==
    /\ batchPc = "running" /\ pc = "idle" /\ idx < Len(urls)
    /\ \E ctorOk \in BOOLEAN :
          /\ get_scraper(CliUrl, ctorOk) = NoInstance
          /\ resolved' = [called |-> TRUE, url |-> CliUrl, ctorOk |-> ctorOk,
                          result |-> NoInstance]
    /\ idx' = idx + 1
    /\ UNCHANGED <<scrapers, domain_mapping, registrations, firstSeen>>
    /\ UNCHANGED <<scraper, urls, results, batchPc, lastScrape, made>>
    /\ UNCHANGED <<fetchVars, cookieVars, pricingVars>>

\* get_scraper gives a new instance, and its scrape_product turns the URL
\* away before any request
CliRefused ==
    /\ batchPc = "running" /\ pc = "idle" /\ idx < Len(urls)
    /\ \E env \in {NotScraped.env} :
          LET found == get_scraper(CliUrl, TRUE)
          IN  /\ found # NoInstance
              /\ ~validate_url(found.cls, CliUrl)
              /\ resolved' = [called |-> TRUE, url |-> CliUrl, ctorOk |-> TRUE,
                              result |-> found]
              /\ scraper' = found.cls
              /\ lastScrape' = [called |-> TRUE, cls |-> found.cls, url |-> CliUrl,
                                env |-> env, out |-> scrape_product(found.cls, CliUrl, env)]
    /\ idx' = idx + 1
    /\ UNCHANGED <<scrapers, domain_mapping, registrations, firstSeen>>
    /\ UNCHANGED <<urls, results, batchPc, made>>
    /\ UNCHANGED <<fetchVars, cookieVars, pricingVars>>

\* get_scraper gives a new instance (BaseScraper.__init__:
\* self._last_request_time = 0), scrape_product accepts the URL and enters
\* _make_request; gap is the time since the URL before was finished
CliRequest ==
    /\ batchPc = "running" /\ pc = "idle" /\ idx < Len(urls)
    /\ LET found == get_scraper(CliUrl, TRUE)
       IN  /\ found # NoInstance
           /\ validate_url(found.cls, CliUrl)
           /\ resolved' = [called |-> TRUE, url |-> CliUrl, ctorOk |-> TRUE,
                           result |-> found]
           /\ scraper' = found.cls
    /\ \E gap \in 0..MaxGap : now' = now + gap
    /\ last_request_time' = 0
    /\ max_retries' = DefaultMaxRetries
    /\ pc' = "rate_limit"
    /\ fetches' = 1
    /\ attempt' = 0
    /\ e' = None
    /\ outcome' = None
    /\ getCount' = 0
    /\ failCount' = 0
    /\ sleeps' = <<>>
    /\ UNCHANGED <<delay_between_requests, prevGetAt, lastGetAt>>
    /\ UNCHANGED <<scrapers, domain_mapping, registrations, firstSeen>>
    /\ UNCHANGED <<urls, idx, results, batchPc, lastScrape, made>>
    /\ UNCHANGED <<cookieVars, pricingVars>>

\* how _make_request ended, as scrape_product meets it (with the default
\* max_retries the retry loop always ends in a return or a raise)
FetchEnding ==
    IF pc = "raised"
    THEN [kind |-> "raise", status |-> 0,
          exc |-> Exc(outcome.type, IF outcome.type = "HTTPError" THEN "Client Error" ELSE "")]
    ELSE [kind |-> "response", status |-> outcome.status, exc |-> NoExc]

\* the rest of scrape_product: the product of a successful result is appended
\* to all_products. The instance is not used again, the next URL gets its own
CliScraped ==
    /\ batchPc = "running" /\ pc \in {"returned", "raised"}
    /\ \E parse \in ParseEndings, extract \in ExtractEndings :
          LET env == [fetch |-> FetchEnding, parse |-> parse, extract |-> extract]
              out == scrape_product(scraper, CliUrl, env)
          IN  /\ FetchEnding.kind # "response" => parse = NoExc /\ extract = NoExc
              /\ parse # NoExc => extract = NoExc
              /\ results' = IF out.kind = "return" /\ out.value.success
                            THEN Append(results, [for |-> CliUrl, result |-> out.value])
                            ELSE results
    /\ idx' = idx + 1
    /\ pc' = "idle"
    /\ last_request_time' = 0
    /\ attempt' = 0
    /\ e' = None
    /\ outcome' = None
    /\ fetches' = 0
    /\ getCount' = 0
    /\ failCount' = 0
    /\ sleeps' = <<>>
    /\ UNCHANGED <<now, delay_between_requests, max_retries, prevGetAt, lastGetAt>>
    /\ UNCHANGED <<scraper, urls, batchPc, lastScrape, made>>
    /\ UNCHANGED <<registryVars, cookieVars, pricingVars>>

\* the loop is over; the export of all_products sends no request
CliExport ==
    /\ batchPc = "running" /\ pc = "idle" /\ idx = Len(urls)
    /\ batchPc' = "done"
    /\ UNCHANGED <<scraper, urls, idx, results, lastScrape, made>>
    /\ UNCHANGED <<fetchVars, registryVars, cookieVars, pricingVars>>

NextCli ==
    \/ RegisterAllScrapers
    \/ CliScrape
    \/ CliNoScraper
    \/ CliRefused
    \/ CliRequest
    \/ EnforceRateLimit
    \/ AttemptReturns
    \/ AttemptRetries
    \/ AttemptRaises
    \/ CliScraped
    \/ CliExport

(***************************************************************************)
(* Claims about the scrape command, checked under SpecCli.                  *)
(***************************************************************************)
\* the last GET is the first one of the instance made for the URL at hand,
\* and the GET before it went to the same vendor for an earlier URL
FirstGetOfNextUrl ==
    /\ batchPc = "running"
    /\ getCount = 1
    /\ prevGetAt >= 0

\* C30: in the scrape command two consecutive GETs sent to the same vendor
\* for successive URLs of the batch are at least delay seconds apart.
C30_AsStated ==
    FirstGetOfNextUrl => lastGetAt - prevGetAt >= delay_between_requests

\* what holds: the instance made for a URL has _last_request_time = 0, so
\* its _enforce_rate_limit never sleeps
NewInstanceNeverWaits ==
    (batchPc = "running" /\ pc = "rate_limit")
    => /\ last_request_time = 0
       /\ RateLimitSleep(now, last_request_time, delay_between_requests) = 0

\* and within the one _make_request of an instance the retries do keep the delay
RetriesKeepDelay ==
    (batchPc = "running" /\ getCount >= 2)
    => lastGetAt - prevGetAt >= delay_between_requests

(***************************************************************************)
(* The specifications.                                                      *)
(***************************************************************************)
\* a scraper with the default configuration on which no request is made
FetchQuiet ==
    /\ now = Epoch
    /\ delay_between_requests = 1
    /\ max_retries = 3
    /\ last_request_time = 0
    /\ pc = "idle"
    /\ attempt = 0
    /\ e = None
    /\ outcome = None
    /\ fetches = 0
    /\ getCount = 0
    /\ failCount = 0
    /\ sleeps = <<>>
    /\ prevGetAt = 0 - 1
    /\ lastGetAt = 0 - 1

\* a scraper on which nothing is scraped
ScrapeQuiet ==
    /\ scraper = "RSComponentsScraper"
    /\ urls = <<>>
    /\ idx = 0
    /\ results = <<>>
    /\ batchPc = "idle"
    /\ lastScrape = NotScraped
    /\ made = NotMade

InitSpecFetch == InitFetch /\ InitRegistry /\ ScrapeQuiet /\ CookieQuiet /\ PricingQuiet
SpecFetch == InitSpecFetch /\ [][NextFetch]_vars

InitSpecRegistry == InitRegistry /\ FetchQuiet /\ ScrapeQuiet /\ CookieQuiet /\ PricingQuiet
SpecRegistry == InitSpecRegistry /\ [][NextRegistry]_vars

InitSpecScrape == InitScrape /\ FetchQuiet /\ InitRegistry /\ CookieQuiet /\ PricingQuiet
SpecScrape == InitSpecScrape /\ [][NextScrape]_vars

InitSpecCookies == InitCookies /\ FetchQuiet /\ InitRegistry /\ ScrapeQuiet /\ PricingQuiet
SpecCookies == InitSpecCookies /\ [][NextCookies]_vars

InitSpecCookieFile == InitCookieFile /\ FetchQuiet /\ InitRegistry /\ ScrapeQuiet /\ PricingQuiet
SpecCookieFile == InitSpecCookieFile /\ [][NextCookieFile]_vars

InitSpecPricing ==
    InitPricing /\ FetchQuiet /\ InitRegistry /\ ScrapeQuiet /\ CookieQuiet
SpecPricing == InitSpecPricing /\ [][NextPricing]_vars

InitSpecBreaks ==
    InitPricing /\ FetchQuiet /\ InitRegistry /\ ScrapeQuiet /\ CookieQuiet
SpecBreaks == InitSpecBreaks /\ [][NextBreaks]_vars

InitSpecExport ==
    InitPricing /\ FetchQuiet /\ InitRegistry /\ ScrapeQuiet /\ CookieQuiet
SpecExport == InitSpecExport /\ [][NextExport]_vars

InitSpecDispatch ==
    InitRegistry /\ FetchQuiet /\ ScrapeQuiet /\ CookieQuiet /\ PricingQuiet
SpecDispatch == InitSpecDispatch /\ [][NextDispatch]_vars

InitSpecCli == InitCli /\ ScrapeQuiet /\ CookieQuiet /\ PricingQuiet
SpecCli == InitSpecCli /\ [][NextCli]_vars

====
